---- MODULE Spec2Model ----
(***************************************************************************)
(* Model of the brick-hero game core (src/src/breaker.rs, bricks.rs,       *)
(* walls.rs, app_state.rs, ui.rs, misc/blink.rs).                          *)
(*                                                                         *)
(* Spec is the game loop: one frame is the engine's main schedule, i.e.    *)
(* event buffer update, outer state transition, the fixed-update loop,     *)
(* the Update systems, and the application of the deferred commands.       *)
(* Transform and Velocity components are not part of Spec: whether a       *)
(* collide() call reports a collision is an input of the pass that makes   *)
(* the call, and the systems that touch nothing else are not in Spec.      *)
(*                                                                         *)
(* SpecRicochet applies the pure function ball_ricochet to drawn inputs.   *)
(*                                                                         *)
(* SpecPhysics is the same game loop with the Transform and Velocity       *)
(* components of the ball and the paddle and with all seven systems of     *)
(* FixedUpdate, explored for a bounded number of frames.  Lengths are      *)
(* fixed-point numbers; the ball velocity is a direction on an arcsine     *)
(* scale (see ball_v).                                                     *)
(*                                                                         *)
(* SpecPaddle and SpecDeflect apply the paddle update and the paddle       *)
(* deflection to drawn inputs.                                             *)
(***************************************************************************)
EXTENDS Integers, Sequences, FiniteSets, TLC

\* ------------------------------------------------------------- bounds
\* Rows of a layout that are spawned (the code spawns all 5).
MaxRows == 2
\* Columns of the brick grid that are spawned (the code computes 7).
MaxCols == 1
\* Fixed-update ticks the engine may run in one frame.
MaxTicks == 2
\* Timer resolution: model time units per second.
TimeUnits == 1
\* Largest velocity component drawn in SpecRicochet.
MaxV == 2
\* The history counter of NextLevel requests stops counting here.
MaxEmitted == 2
\* Calls of ball_ricochet in a row in SpecRicochet.
MaxCalls == 2
\* Bricks the ball may overlap in one tick.
MaxOverlap == 2
\* Fixed-point resolution: model length units per source length unit.
Resolution == 10
\* Frames explored in SpecPhysics.
MaxFrames == 1
\* Ticks already played when SpecPhysics starts.
MaxPlayed == 1
\* Largest velocity length drawn in SpecDeflect.
MaxLen == 2
\* Calls of update_paddle in a row in SpecPaddle.
MaxSteps == 3
\* Ticks integrated into the ball position since it was last set.
MaxMoves == 1

\* --------------------------------------------------- program constants
PLAYER_STARTING_HEALTH == 3
BLINK_DURATION == 1 * TimeUnits
HIT_SCORE == 10
\* The text setup gives the value section of the HealthDisplay: "0".
HEALTH_DISPLAY_INITIAL == 0
STARTING_LEVEL == 1
LEFT_WALL == -450
RIGHT_WALL == 450
BRICK_SIZE_X == 100
BRICK_MARGIN == 5
BRICK_DIST_FROM_SIDE_WALL == 60
WALL_THICKNESS == 10
PADDLE_SIZE_X == 120
PADDLE_PADDING == 10
PADDLE_SPEED == 500
\* FixedTime::new_from_secs(1 / 60): ticks per second.
TICKS_PER_SECOND == 60
\* PADDLE_LERP = 0.10, in percent.
PADDLE_LERP_PERCENT == 10
PADDLE_MAX_MOMENTUM == 7 * Resolution
PADDLE_LEFT_BOUND ==
    (LEFT_WALL + WALL_THICKNESS \div 2 + PADDLE_SIZE_X \div 2 + PADDLE_PADDING)
        * Resolution
PADDLE_RIGHT_BOUND ==
    (RIGHT_WALL - WALL_THICKNESS \div 2 - PADDLE_SIZE_X \div 2 - PADDLE_PADDING)
        * Resolution
PADDLE_STARTING_POSITION_X == 0 * Resolution

\* Angles are counted in steps of which QuarterTurn make pi / 2; the step is
\* chosen so that PADDLE_MAX_INFLUENCE * (momentum / PADDLE_MAX_MOMENTUM) is
\* a whole number of steps for every fixed-point momentum.
QuarterTurn == 2 * PADDLE_MAX_MOMENTUM
PADDLE_MAX_INFLUENCE == QuarterTurn

\* A velocity is a pair << x, y >> of codes in -QuarterTurn .. QuarterTurn
\* and stands for the unit vector normalize(sin(x), sin(y)): a code has the
\* sign of its component, and negating a component negates its code.
\* INITIAL_BALL_DIRECTION = (0.5, -0.5), normalized by setup.
INITIAL_BALL_DIRECTION == << QuarterTurn \div 2, -(QuarterTurn \div 2) >>

\* The ball position is BALL_STARTING_POSITION plus BALL_SPEED * period
\* times the sum of the velocities integrated since it was last set.
BALL_STARTING_POSITION == [origin |-> << -150, -50 >>, moved |-> << >>]

LEVELS ==
    << <<1, 1, 1, 1, 1>>,
       <<2, 1, 1, 1, 2>>,
       <<1, 1, 2, 2, 3>>,
       <<1, 3, 1, 3, 1>>,
       <<3, 3, 1, 3, 3>> >>

\* BRICK_COLORS has three entries, indexed 0..2.
BRICK_COLORS == 0 .. 2

Min(a, b) == IF a <= b THEN a ELSE b

\* brick_cols of spawn_bricks: floor(bricks_width / (BRICK_SIZE.x + BRICK_MARGIN)).
brick_cols ==
    Min(((RIGHT_WALL - LEFT_WALL) - 2 * BRICK_DIST_FROM_SIDE_WALL)
            \div (BRICK_SIZE_X + BRICK_MARGIN),
        MaxCols)

\* brick_rows of spawn_bricks: LEVELS.len().
brick_rows == Min(Len(LEVELS), MaxRows)

\* --------------------------------------------------------------- enums
AppStates == {"MainMenu", "InGame", "GameOver", "Exit"}
GameStates == {"Uninitialized", "Playing", "Paused"}
Sides == {"Left", "Right", "Top", "Bottom", "Inside"}
\* collide() returns None or Some(side).
Collisions == Sides \cup {"None"}

\* AppStateTransition -> the AppState it requests.
AppTarget(req) ==
    CASE req = "ToMainMenu" -> "MainMenu"
      [] req = "ToInGame" -> "InGame"
      [] req = "ToGameOver" -> "GameOver"
      [] req = "ToExit" -> "Exit"

VARIABLES
    pc,             \* position in the frame
    ticks_run,      \* fixed-update ticks run so far in this frame
    tick_done,      \* fixed-update systems that ran in the current tick
    upd_done,       \* Update systems that ran in the current frame
    app_state,      \* State<AppState>
    next_state,     \* NextState<AppState>: "None" or the queued state
    app_events,     \* Events<AppStateTransition> not yet read, with age
    game_state,     \* CurrentState
    game_events,    \* Events<GameStateTransition> not yet read, with age
    player_msgs,    \* Events<PlayerMessage> not yet read: <<older, newer>>
    brick_tracker,  \* BrickTracker
    level,          \* Level
    health,         \* Health
    score,          \* Scoreboard.score
    bricks,         \* live Brick entities: id -> [strength, color]
    world,          \* number of live Ball, Paddle and Wall entities
    blinking,       \* Blinking component of paddle and ball: NoBlinking or elapsed
    visible,        \* Visibility of paddle and ball
    health_text,    \* the value the HealthDisplay shows, NoDisplay while there is none
    fixed_cmds,     \* deferred commands of the running fixed-update tick
    update_cmds,    \* deferred commands of the running Update schedule
    panic,          \* "none", or the panic that ended the process
    exited,         \* AppExit was sent
    hits,           \* history: brick hits so far
    accepted,       \* history: JustLostHealth events that cost health
    window_losses,  \* history: health lost since the paddle last had no blink window
    nl_emitted,     \* history: NextLevel requests sent for the current clear, up to MaxEmitted
    menu_requested, \* history: health_handler requested ToMainMenu, and AppState was not MainMenu since
    handled,        \* history: the requests handle_transition_request read in this frame
    r_side,         \* SpecRicochet: the collision side drawn
    r_in,           \* SpecRicochet: the velocity drawn
    r_out,          \* SpecRicochet: the velocity after r_n applications
    r_n,            \* SpecRicochet: applications so far
    physics,        \* whether Transform and Velocity are carried (SpecPhysics)
    frames,         \* SpecPhysics: frames begun so far
    ball_pos,       \* Transform.translation of the ball
    ball_v,         \* Velocity of the ball
    paddle_x,       \* Transform.translation.x of the paddle, fixed-point
    paddle_momentum,\* PaddleMomentum, fixed-point
    brick_overlap,  \* history: the bricks collide reported to the brick pass of the running tick
    bottom_collision, \* history: "NotRun", or what collide returned to the bottom-wall pass of the running tick
    p_x,            \* SpecPaddle: the paddle x drawn, then updated
    p_m,            \* SpecPaddle: the momentum drawn, then updated
    p_n,            \* SpecPaddle: calls applied so far
    p_op,           \* SpecPaddle: "none", or the call applied last
    p_from,         \* SpecPaddle: the paddle x before the call applied last
    p_keys,         \* SpecPaddle: << left, right >> as update_paddle_momentum read them last
    d_style,        \* SpecDeflect: the ControlStyle drawn
    d_side,         \* SpecDeflect: the collision side drawn
    d_v,            \* SpecDeflect: the velocity direction drawn
    d_len,          \* SpecDeflect: the velocity length drawn
    d_m,            \* SpecDeflect: the paddle momentum drawn
    d_out,          \* SpecDeflect: the velocity after d_n paddle passes
    d_n,            \* SpecDeflect: paddle passes applied so far
    bl_pc,          \* SpecBlink: the system of the frame that runs next
    bl_state,       \* SpecBlink: CurrentState as the run condition of the frame read it
    bl_timer,       \* SpecBlink: Blinking of the entity: NoBlinking or elapsed
    bl_visible,     \* SpecBlink: Visibility of the entity is Inherited
    bl_cmds,        \* SpecBlink: deferred commands of the frame
    bl_played,      \* SpecBlink: history: time in Playing since Blinking was inserted
    bl_hid,         \* SpecBlink: history: blink has hidden the entity since Blinking was inserted
    bl_n,           \* SpecBlink: frames run so far
    s_pc,           \* SpecSound: what runs next in the frame
    s_delta,        \* SpecSound: Time.delta of the running frame
    s_playing,      \* SpecSound: CurrentState is Playing in the running frame
    s_found,        \* SpecSound: history: the events the last run of play_collision_sound found
    s_delay,        \* SpecSound: the Local delay of play_collision_sound, up to COLLISION_SOUND_DELAY
    s_events,       \* SpecSound: Events<CollisionEvent> not yet read: <<older, newer>>
    s_sounds,       \* SpecSound: history: AudioBundles spawned in the running frame
    s_since,        \* SpecSound: history: frame time since the last sound, NoSound before the first
    s_n             \* SpecSound: frames run so far

loop_vars ==
    << pc, ticks_run, tick_done, upd_done, app_state, next_state, app_events,
       game_state, game_events, player_msgs, brick_tracker, level, health, score,
       bricks, world, blinking, visible, health_text, fixed_cmds, update_cmds, panic,
       exited, hits, accepted, window_losses, nl_emitted,
       menu_requested, handled >>

sched_vars == << pc, ticks_run, tick_done, upd_done >>

hist_vars ==
    << hits, accepted, window_losses, nl_emitted, menu_requested, handled >>

ricochet_vars == << r_side, r_in, r_out, r_n >>

physics_vars ==
    << physics, frames, ball_pos, ball_v, paddle_x, paddle_momentum,
       bottom_collision, brick_overlap >>

paddle_vars == << p_x, p_m, p_n, p_op, p_from, p_keys >>

deflect_vars == << d_style, d_side, d_v, d_len, d_m, d_out, d_n >>

blink_vars ==
    << bl_pc, bl_state, bl_timer, bl_visible, bl_cmds, bl_played, bl_hid, bl_n >>

\* The variables of the specifications of single functions.
sound_vars ==
    << s_pc, s_delta, s_playing, s_found, s_delay, s_events, s_sounds, s_since, s_n >>

pure_vars ==
    << ricochet_vars, paddle_vars, deflect_vars, blink_vars, sound_vars >>

vars == << loop_vars, physics_vars, pure_vars >>

\* ----------------------------------------------------- pure functions

\* Mutant: the Left and Right arms test the wrong sign.
ball_ricochet_swapped(collision, v) ==
    LET reflect_x ==
            CASE collision = "Left" -> v[1] < 0
              [] collision = "Right" -> v[1] > 0
              [] OTHER -> FALSE
        reflect_y ==
            CASE collision = "Top" -> v[2] < 0
              [] collision = "Bottom" -> v[2] > 0
              [] OTHER -> FALSE
    IN  << IF reflect_x THEN -v[1] ELSE v[1], IF reflect_y THEN -v[2] ELSE v[2] >>

\* Mutant: the Top and Bottom arms test the wrong sign.
ball_ricochet_vertical_swapped(collision, v) ==
    LET reflect_x ==
            CASE collision = "Left" -> v[1] > 0
              [] collision = "Right" -> v[1] < 0
              [] OTHER -> FALSE
        reflect_y ==
            CASE collision = "Top" -> v[2] > 0
              [] collision = "Bottom" -> v[2] < 0
              [] OTHER -> FALSE
    IN  << IF reflect_x THEN -v[1] ELSE v[1], IF reflect_y THEN -v[2] ELSE v[2] >>

\* Mutant: a plain reflection, whatever the direction of travel.
ball_ricochet_always(collision, v) ==
    LET reflect_x == collision \in {"Left", "Right"}
        reflect_y == collision \in {"Top", "Bottom"}
    IN  << IF reflect_x THEN -v[1] ELSE v[1], IF reflect_y THEN -v[2] ELSE v[2] >>

\* ball_ricochet: the velocity after a collision on the given side.
ball_ricochet(collision, v) ==
    LET reflect_x ==
            CASE collision = "Left" -> v[1] > 0
              [] collision = "Right" -> v[1] < 0
              [] collision = "Top" -> FALSE
              [] collision = "Bottom" -> FALSE
              [] collision = "Inside" -> FALSE
        reflect_y ==
            CASE collision = "Left" -> FALSE
              [] collision = "Right" -> FALSE
              [] collision = "Top" -> v[2] < 0
              [] collision = "Bottom" -> v[2] > 0
              [] collision = "Inside" -> FALSE
    IN  << IF reflect_x THEN -1 * v[1] ELSE v[1],
           IF reflect_y THEN -1 * v[2] ELSE v[2] >>

Abs(x) == IF x < 0 THEN -x ELSE x

\* f32::clamp.
clamp(x, lo, hi) == IF x < lo THEN lo ELSE IF x > hi THEN hi ELSE x

\* The fixed-point value of a quotient: rounded toward zero.
TruncDiv(a, b) == IF a >= 0 THEN a \div b ELSE -((-a) \div b)

\* Lerp::lerp for f32: a + (b - a) * t.
lerp(a, b, percent) == a + TruncDiv((b - a) * percent, 100)

\* dir of update_paddle_momentum, from the held keys.
paddle_dir(left, right) ==
    CASE left /\ ~right -> -1
      [] ~left /\ right -> 1
      [] OTHER -> 0

\* The PaddleMomentum update_paddle_momentum leaves.
new_paddle_momentum(momentum, left, right) ==
    clamp(lerp(momentum,
               TruncDiv(paddle_dir(left, right) * PADDLE_SPEED * Resolution,
                        TICKS_PER_SECOND),
               PADDLE_LERP_PERCENT),
          -PADDLE_MAX_MOMENTUM, PADDLE_MAX_MOMENTUM)

\* Mutant: the new x is not clamped to the bounds.
new_paddle_x_unclamped(start, momentum) == start + momentum

\* The x update_paddle leaves.
new_paddle_x(start, momentum) ==
    clamp(start + momentum, PADDLE_LEFT_BOUND, PADDLE_RIGHT_BOUND)

\* Whether the pair of codes is a unit vector as it stands:
\* sin(x)^2 + sin(y)^2 = 1.
OnCircle(v) == Abs(v[1]) + Abs(v[2]) = QuarterTurn

\* Vec2::angle_between(Vec2::Y) of a unit vector, in steps:
\* acos(v.y) * signum(v.x), where signum(0.0) = 1.
angle_between_Y(v) ==
    (QuarterTurn - v[2]) * (IF v[1] < 0 THEN -1 ELSE 1)

\* The code of sin(angle), for an angle in -QuarterTurn .. QuarterTurn.
sin_code(angle) == angle

\* The code of cos(angle).  In f32 acos(0) is the float above pi / 2 and its
\* cosine is about -4.4e-8, not 0: the smallest negative code stands for it.
cos_code(angle) ==
    IF Abs(angle) = QuarterTurn THEN -1 ELSE QuarterTurn - Abs(angle)

\* Mutant: the rebuilt direction is not scaled back to the old length.
ball_influence_momentum_unit(vel, momentum) ==
    LET reflected_angle == angle_between_Y(vel.v)
        momentum_influence ==
            (PADDLE_MAX_INFLUENCE * momentum) \div PADDLE_MAX_MOMENTUM
        desired_angle ==
            clamp(reflected_angle + momentum_influence, -QuarterTurn, QuarterTurn)
    IN  [v |-> << sin_code(desired_angle), cos_code(reflected_angle) >>,
         len |-> 1]

\* ball_influence_momentum: the velocity [v, len] is rebuilt as
\* normalize(sin(desired_angle), cos(reflected_angle)) * magnitude.
ball_influence_momentum(vel, momentum) ==
    LET reflected_angle == angle_between_Y(vel.v)
        momentum_influence ==
            (PADDLE_MAX_INFLUENCE * momentum) \div PADDLE_MAX_MOMENTUM
        desired_angle ==
            clamp(reflected_angle + momentum_influence, -QuarterTurn, QuarterTurn)
        magnitude == vel.len
    IN  [v |-> << sin_code(desired_angle), cos_code(reflected_angle) >>,
         len |-> magnitude]

\* ball_influence_edges has the body of ball_influence_momentum.
ball_influence_edges(vel, momentum) == ball_influence_momentum(vel, momentum)

\* The values of ControlStyle.
ControlStyles == {"Edges", "Momentum", "Unaltered"}

\* Mutant: the ControlStyle is applied whatever the collision side.
paddle_collision_with_any_side(control_style, collision, vel, momentum) ==
    LET reflected == [vel EXCEPT !.v = ball_ricochet(collision, vel.v)]
    IN  CASE control_style = "Edges" ->
                 ball_influence_edges(reflected, momentum)
          [] control_style = "Momentum" ->
                 ball_influence_momentum(reflected, momentum)
          [] control_style = "Unaltered" -> reflected

\* The body of the loop of check_paddle_collision for a paddle the ball
\* collides with, under a ControlStyle.
paddle_collision_with(control_style, collision, vel, momentum) ==
    LET reflected == [vel EXCEPT !.v = ball_ricochet(collision, vel.v)]
    IN  IF collision \in {"Bottom", "Top"}
        THEN CASE control_style = "Edges" ->
                      ball_influence_edges(reflected, momentum)
               [] control_style = "Momentum" ->
                      ball_influence_momentum(reflected, momentum)
               [] control_style = "Unaltered" -> reflected
        ELSE reflected

\* check_paddle_collision in the game: ControlStyle is Edges from build on
\* and is never changed.
paddle_collision(collision, vel, momentum) ==
    paddle_collision_with("Edges", collision, vel, momentum)

\* The layout row strengths spawn_bricks reads: LEVELS[level], 0-based.
LevelInRange(lvl) == lvl >= 0 /\ lvl < Len(LEVELS)

\* Mutant: every level reads the entry of the first level.
brick_layout_first(lvl) == LEVELS[STARTING_LEVEL + 1]

\* Mutant: the table is read as if the level were 1-based.
brick_layout_one_based(lvl) == LEVELS[lvl]

brick_layout(lvl) == LEVELS[lvl + 1]

\* Entities are never reused: a brick is named by the level that spawned it
\* and its place in the grid.
BrickIds(lvl) == {lvl} \X (0 .. brick_rows - 1) \X (0 .. brick_cols - 1)

\* brick_sprite / spawn_brick_row: the Brick component and the Sprite colour.
spawn_brick_row(brick_strength) ==
    [strength |-> brick_strength, color |-> brick_strength - 1]

\* spawn_bricks: the bricks it asks to spawn and the count it returns;
\* indexing LEVELS out of range panics.
spawn_bricks(lvl) ==
    IF ~LevelInRange(lvl)
    THEN [panic |-> "index out of bounds", spawned |-> << >>, num_bricks |-> 0]
    ELSE [panic |-> "none",
          spawned |-> [id \in BrickIds(lvl) |-> spawn_brick_row(brick_layout(lvl)[id[2] + 1])],
          num_bricks |-> brick_rows * brick_cols]

\* A function with the pairs of f and g (disjoint domains, or g wins).
Merge(f, g) ==
    [x \in (DOMAIN f) \cup (DOMAIN g) |-> IF x \in DOMAIN g THEN g[x] ELSE f[x]]

Restrict(f, S) == [x \in S |-> f[x]]

\* An order on a finite set, for the iteration of a query.
RECURSIVE SetToSeq(_)
SetToSeq(S) ==
    IF S = {} THEN << >>
    ELSE LET x == CHOOSE y \in S : TRUE
         IN  << x >> \o SetToSeq(S \ {x})

\* ------------------------------------------------------ the game loop

\* The systems of FixedUpdate that touch more than Transform and Velocity.
FixedSystems == {"check_brick_collisions", "check_bottom_wall_collision"}

\* The systems of FixedUpdate that touch Transform and Velocity only.
MotionSystems ==
    {"move_ball", "update_paddle_momentum", "update_paddle",
     "check_paddle_collision", "check_wall_collision"}

\* The systems a run of FixedUpdate runs.
TickSystems ==
    IF physics THEN FixedSystems \cup MotionSystems ELSE FixedSystems

\* Two entities carry a Blinking component: the paddle and the ball.
Blinkers == {"paddle", "ball"}

\* The value of an entity that carries no Blinking component; an entity that
\* carries one has the elapsed time of its timer, 0 .. BLINK_DURATION.
NoBlinking == -1

\* The value of health_text while no HealthDisplay exists.
NoDisplay == -1

NoBricks == [id \in {} |-> 0]

\* BreakoutGamePlugin::build and AppStatePlugin::build: the resources inserted.
LoopInit ==
    /\ pc = "First"
    /\ ticks_run = 0
    /\ tick_done = {}
    /\ upd_done = {}
    /\ app_state = "MainMenu"
    /\ next_state = "None"
    /\ app_events = << >>
    /\ game_state = "Uninitialized"
    /\ game_events = << >>
    /\ player_msgs = << 0, 0 >>
    /\ brick_tracker = 0
    /\ level = STARTING_LEVEL
    /\ health = PLAYER_STARTING_HEALTH
    /\ score = 0
    /\ bricks = NoBricks
    /\ world = [ball |-> 0, paddle |-> 0, wall |-> 0]
    /\ blinking = [e \in Blinkers |-> NoBlinking]
    /\ visible = [e \in Blinkers |-> TRUE]
    /\ health_text = NoDisplay
    /\ fixed_cmds = {}
    /\ update_cmds = << >>
    /\ panic = "none"
    /\ exited = FALSE
    /\ hits = 0
    /\ accepted = 0
    /\ window_losses = 0
    /\ nl_emitted = 0
    /\ menu_requested = FALSE
    /\ handled = << >>

\* A panic ends the process: nothing runs after it.
Running == panic = "none"

RicochetIdle ==
    /\ r_side = "Inside"
    /\ r_in = << 0, 0 >>
    /\ r_out = << 0, 0 >>
    /\ r_n = 0

PaddleIdle ==
    /\ p_x = PADDLE_STARTING_POSITION_X
    /\ p_m = 0
    /\ p_n = 0
    /\ p_op = "none"
    /\ p_from = PADDLE_STARTING_POSITION_X
    /\ p_keys = << FALSE, FALSE >>

DeflectIdle ==
    /\ d_style = "Edges"
    /\ d_side = "Inside"
    /\ d_v = INITIAL_BALL_DIRECTION
    /\ d_len = 1
    /\ d_m = 0
    /\ d_out = [v |-> INITIAL_BALL_DIRECTION, len |-> 1]
    /\ d_n = 0

\* The value of s_since while no sound has been played.
NoSound == -1

SoundIdle ==
    /\ s_pc = "ticks"
    /\ s_delta = 0
    /\ s_playing = TRUE
    /\ s_found = 0
    /\ s_delay = 0
    /\ s_events = << 0, 0 >>
    /\ s_sounds = 0
    /\ s_since = NoSound
    /\ s_n = 0

BlinkIdle ==
    /\ bl_pc = "blink"
    /\ bl_state = "Playing"
    /\ bl_timer = NoBlinking
    /\ bl_visible = TRUE
    /\ bl_cmds = {}
    /\ bl_played = 0
    /\ bl_hid = FALSE
    /\ bl_n = 0

\* The components setup gives the ball and the paddle, and the
\* PaddleMomentum resource; nothing reads a component before setup has run.
PhysicsInit ==
    /\ frames = 0
    /\ ball_pos = BALL_STARTING_POSITION
    /\ ball_v = INITIAL_BALL_DIRECTION
    /\ paddle_x = PADDLE_STARTING_POSITION_X
    /\ paddle_momentum = 0
    /\ bottom_collision = "NotRun"
    /\ brick_overlap = {}

Init ==
    /\ LoopInit
    /\ physics = FALSE
    /\ PhysicsInit
    /\ RicochetIdle
    /\ PaddleIdle
    /\ DeflectIdle
    /\ BlinkIdle
    /\ SoundIdle

\* Events::update, run in the First schedule of every frame for each event
\* type registered with add_event: an event is readable in the frame that
\* sent it and in the next one.
AgeEvents(q) ==
    LET young == SelectSeq(q, LAMBDA e : e[2] = 0)
    IN  [i \in 1 .. Len(young) |-> << young[i][1], 1 >>]

event_update_system ==
    /\ pc = "First"
    /\ Running
    /\ physics => frames < MaxFrames
    /\ frames' = IF physics THEN frames + 1 ELSE frames
    /\ app_events' = AgeEvents(app_events)
    /\ game_events' = AgeEvents(game_events)
    /\ player_msgs' = << player_msgs[2], 0 >>
    /\ pc' = "StateTransition"
    /\ UNCHANGED << ticks_run, tick_done, upd_done, app_state, next_state,
                    game_state, brick_tracker, level, health, score, bricks, world,
                    blinking, visible, health_text, fixed_cmds, update_cmds, panic,
                    exited, hits, accepted, window_losses, nl_emitted,
                    menu_requested, handled >>
    /\ UNCHANGED << physics, ball_pos, ball_v, paddle_x, paddle_momentum,
                    bottom_collision, brick_overlap >>
    /\ UNCHANGED pure_vars

\* add_state::<AppState>(): the StateTransition schedule takes the queued
\* NextState, before the fixed-update loop and Update.
apply_state_transition ==
    /\ pc = "StateTransition"
    /\ Running
    /\ app_state' = IF next_state = "None" THEN app_state ELSE next_state
    /\ next_state' = "None"
    /\ pc' = "FixedLoop"
    /\ ticks_run' = 0
    /\ menu_requested' = (menu_requested /\ app_state' # "MainMenu")
    /\ UNCHANGED handled
    /\ UNCHANGED << tick_done, upd_done, app_events, game_state, game_events,
                    player_msgs, brick_tracker, level, health, score, bricks, world,
                    blinking, visible, health_text, fixed_cmds, update_cmds, panic,
                    exited, hits, accepted, window_losses, nl_emitted >>
    /\ UNCHANGED << physics_vars, pure_vars >>

\* The FixedUpdate schedule runs zero or more times in a frame; its systems
\* share one run condition, resource_equals(CurrentState(Playing)).
fixed_update_begin ==
    /\ pc = "FixedLoop"
    /\ Running
    /\ ticks_run < MaxTicks
    /\ Len(ball_pos.moved) < MaxMoves
    /\ IF game_state = "Playing"
       THEN /\ pc' = "Tick"
            /\ tick_done' = {}
            /\ UNCHANGED ticks_run
       ELSE /\ ticks_run' = ticks_run + 1
            /\ UNCHANGED << pc, tick_done >>
    /\ UNCHANGED << upd_done, app_state, next_state, app_events, game_state,
                    game_events, player_msgs, brick_tracker, level, health, score,
                    bricks, world, blinking, visible, health_text, fixed_cmds,
                    update_cmds, panic, exited, hist_vars >>
    /\ UNCHANGED << physics_vars, pure_vars >>

\* The fixed-update loop is over for this frame: the Update schedule starts.
fixed_update_end ==
    /\ pc = "FixedLoop"
    /\ Running
    /\ pc' = "Update"
    /\ upd_done' = {}
    /\ ticks_run' = 0
    /\ UNCHANGED << tick_done, app_state, next_state, app_events,
                    game_state, game_events, player_msgs, brick_tracker, level,
                    health, score, bricks, world, blinking, visible, health_text,
                    fixed_cmds, update_cmds, panic, exited, hist_vars >>
    /\ UNCHANGED << physics_vars, pure_vars >>

\* Mutant: the counter is not decremented when a brick is removed.
brick_collision_no_decrement(st, id) ==
    LET strength == st.bricks[id].strength - 1
    IN  IF strength = 0
        THEN [st EXCEPT !.score = @ + HIT_SCORE, !.hits = @ + 1,
                        !.bricks[id].strength = 0,
                        !.despawn = @ \cup {id}]
        ELSE [st EXCEPT !.score = @ + HIT_SCORE, !.hits = @ + 1,
                        !.bricks[id].strength = strength,
                        !.bricks[id].color = strength - 1]

\* Mutant: only the hit that removes the brick scores.
brick_collision_score_on_kill(st, id) ==
    LET strength == st.bricks[id].strength - 1
    IN  IF strength = 0
        THEN [st EXCEPT !.score = @ + HIT_SCORE, !.hits = @ + 1,
                        !.bricks[id].strength = 0,
                        !.despawn = @ \cup {id},
                        !.tracker = @ - 1]
        ELSE [st EXCEPT !.hits = @ + 1,
                        !.bricks[id].strength = strength,
                        !.bricks[id].color = strength - 1]

\* Mutant: a brick at strength 0 is not despawned.
brick_collision_no_despawn(st, id) ==
    LET strength == st.bricks[id].strength - 1
    IN  IF st.bricks[id].strength = 0
        THEN [st EXCEPT !.score = @ + HIT_SCORE, !.hits = @ + 1,
                        !.panic = "attempt to subtract with overflow"]
        ELSE IF strength = 0
        THEN [st EXCEPT !.score = @ + HIT_SCORE, !.hits = @ + 1,
                        !.bricks[id].strength = 0,
                        !.tracker = IF @ = 0 THEN 0 ELSE @ - 1]
        ELSE [st EXCEPT !.score = @ + HIT_SCORE, !.hits = @ + 1,
                        !.bricks[id].strength = strength,
                        !.bricks[id].color = strength - 1]

\* Mutant: the brick is removed one hit late.
brick_collision_late(st, id) ==
    LET strength == st.bricks[id].strength - 1
    IN  IF strength < 0
        THEN [st EXCEPT !.score = @ + HIT_SCORE, !.hits = @ + 1,
                        !.despawn = @ \cup {id},
                        !.tracker = @ - 1]
        ELSE [st EXCEPT !.score = @ + HIT_SCORE, !.hits = @ + 1,
                        !.bricks[id].strength = strength,
                        !.bricks[id].color = IF strength = 0 THEN 0 ELSE strength - 1]

\* brick_collision: score, strength, despawn, counter and colour of one hit
\* brick.  The u8 strength and the usize counter panic below 0.
brick_collision(st, id) ==
    LET strength == st.bricks[id].strength - 1
    IN  IF st.bricks[id].strength = 0
        THEN [st EXCEPT !.score = @ + HIT_SCORE, !.hits = @ + 1,
                        !.panic = "attempt to subtract with overflow"]
        ELSE IF strength = 0
        THEN IF st.tracker = 0
             THEN [st EXCEPT !.score = @ + HIT_SCORE, !.hits = @ + 1,
                             !.bricks[id].strength = 0,
                             !.despawn = @ \cup {id},
                             !.panic = "attempt to subtract with overflow"]
             ELSE [st EXCEPT !.score = @ + HIT_SCORE, !.hits = @ + 1,
                             !.bricks[id].strength = 0,
                             !.despawn = @ \cup {id},
                             !.tracker = @ - 1]
        ELSE [st EXCEPT !.score = @ + HIT_SCORE, !.hits = @ + 1,
                        !.bricks[id].strength = strength,
                        !.bricks[id].color = strength - 1]

\* Mutant: the loop ends at the first brick the ball collides with.
BrickPass_first_only(st, order, collision) ==
    IF order = << >> \/ st.panic # "none" THEN st
    ELSE LET hit == brick_collision(st, Head(order))
         IN  [hit EXCEPT !.v = ball_ricochet(collision[Head(order)], @)]

\* The loop of check_brick_collisions over the bricks the ball overlaps, in
\* query order: brick_collision and ball_ricochet for each.
RECURSIVE BrickPass(_, _, _)
BrickPass(st, order, collision) ==
    IF order = << >> \/ st.panic # "none" THEN st
    ELSE LET hit == brick_collision(st, Head(order))
         IN  BrickPass([hit EXCEPT !.v = ball_ricochet(collision[Head(order)], @)],
                       Tail(order), collision)

\* The sides collide() may report for the colliders in S.  The side only
\* matters to the Velocity: where it is not carried, one side stands for all.
CollisionSides(S) ==
    IF physics THEN [S -> Sides] ELSE {[c \in S |-> "Inside"]}

\* The bricks for which collide() reports a side in one tick: any few of
\* the live bricks.
BrickOverlaps(live) == {o \in SUBSET live : Cardinality(o) <= MaxOverlap}

\* check_brick_collisions.  single_mut() panics without exactly one ball.
check_brick_collisions ==
    /\ pc = "Tick"
    /\ Running
    /\ "check_brick_collisions" \notin tick_done
    /\ tick_done' = tick_done \cup {"check_brick_collisions"}
    /\ IF world.ball # 1
       THEN /\ panic' = "single_mut"
            /\ UNCHANGED << score, brick_tracker, bricks, fixed_cmds, hits,
                            ball_v, brick_overlap >>
       ELSE \E st \in UNION {
                    {BrickPass([score |-> score, tracker |-> brick_tracker,
                                bricks |-> bricks, despawn |-> fixed_cmds,
                                panic |-> "none", hits |-> hits, v |-> ball_v,
                                overlap |-> overlapped],
                               SetToSeq(overlapped), collision) :
                        collision \in CollisionSides(overlapped)} :
                    overlapped \in BrickOverlaps(DOMAIN bricks)} :
                /\ ball_v' = st.v
                /\ brick_overlap' = st.overlap
                /\ score' = st.score
                /\ brick_tracker' = st.tracker
                /\ bricks' = st.bricks
                /\ fixed_cmds' = st.despawn
                /\ panic' = st.panic
                /\ hits' = st.hits
    /\ UNCHANGED << pc, ticks_run, upd_done, app_state, next_state, app_events,
                    game_state, game_events, player_msgs, level, health, world,
                    blinking, visible, health_text, update_cmds, exited, accepted,
                    window_losses, nl_emitted, menu_requested, handled >>
    /\ UNCHANGED << physics, frames, ball_pos, paddle_x, paddle_momentum,
                    bottom_collision >>
    /\ UNCHANGED pure_vars

\* Mutant: the bottom wall reflects the ball without a JustLostHealth event.
bottom_wall_hit_silent(st, collision) ==
    [st EXCEPT !.v = ball_ricochet(collision, @)]

\* The body of the loop of check_bottom_wall_collision for a collision:
\* JustLostHealth is sent, and ball_ricochet is called on the velocity.
bottom_wall_hit(st, collision) ==
    [st EXCEPT !.msgs = << @[1], @[2] + 1 >>,
               !.v = ball_ricochet(collision, @)]

\* walls::check_bottom_wall_collision: one BottomWall collider; collision is
\* what collide() reports for it.
check_bottom_wall_collision ==
    /\ pc = "Tick"
    /\ Running
    /\ "check_bottom_wall_collision" \notin tick_done
    /\ tick_done' = tick_done \cup {"check_bottom_wall_collision"}
    /\ IF world.ball # 1
       THEN /\ panic' = "single_mut"
            /\ UNCHANGED << player_msgs, ball_v, bottom_collision >>
       ELSE \E collision \in CollisionSides({"WallBottom"}) \cup [{"WallBottom"} -> {"None"}] :
                LET found == IF world.wall > 0 THEN collision["WallBottom"] ELSE "None"
                    st == IF found # "None"
                          THEN bottom_wall_hit([msgs |-> player_msgs, v |-> ball_v], found)
                          ELSE [msgs |-> player_msgs, v |-> ball_v]
                IN  /\ panic' = panic
                    /\ bottom_collision' = found
                    /\ player_msgs' = st.msgs
                    /\ ball_v' = st.v
    /\ UNCHANGED << pc, ticks_run, upd_done, app_state, next_state, app_events,
                    game_state, game_events, brick_tracker, level, health, score, bricks,
                    world, blinking, visible, health_text, fixed_cmds, update_cmds, exited,
                    hist_vars >>
    /\ UNCHANGED << physics, frames, ball_pos, paddle_x, paddle_momentum,
                    brick_overlap >>
    /\ UNCHANGED pure_vars

\* What a system of FixedUpdate that touches Transform and Velocity only
\* leaves alone, besides the components themselves.
motion_frame ==
    << pc, ticks_run, upd_done, app_state, next_state, app_events, game_state,
       game_events, player_msgs, brick_tracker, level, health, score, bricks,
       world, blinking, visible, health_text, fixed_cmds, update_cmds, exited,
       hist_vars, physics, frames, bottom_collision, brick_overlap >>

\* move_ball: the position advances by the velocity, scaled by BALL_SPEED
\* and the tick period.  single_mut() panics without exactly one ball.
move_ball ==
    /\ pc = "Tick"
    /\ Running
    /\ physics
    /\ "move_ball" \notin tick_done
    /\ tick_done' = tick_done \cup {"move_ball"}
    /\ IF world.ball # 1
       THEN /\ panic' = "single_mut"
            /\ UNCHANGED ball_pos
       ELSE /\ panic' = panic
            /\ ball_pos' = [ball_pos EXCEPT !.moved = Append(@, ball_v)]
    /\ UNCHANGED << motion_frame, ball_v, paddle_x, paddle_momentum >>
    /\ UNCHANGED pure_vars

\* update_paddle_momentum: left is A or Left held, right is D or Right held.
update_paddle_momentum ==
    /\ pc = "Tick"
    /\ Running
    /\ physics
    /\ "update_paddle_momentum" \notin tick_done
    /\ tick_done' = tick_done \cup {"update_paddle_momentum"}
    /\ \E left \in BOOLEAN, right \in BOOLEAN :
           paddle_momentum' = new_paddle_momentum(paddle_momentum, left, right)
    /\ UNCHANGED << motion_frame, panic, ball_pos, ball_v, paddle_x >>
    /\ UNCHANGED pure_vars

\* update_paddle, after update_paddle_momentum.  single_mut() panics
\* without exactly one paddle.
update_paddle ==
    /\ pc = "Tick"
    /\ Running
    /\ physics
    /\ "update_paddle_momentum" \in tick_done
    /\ "update_paddle" \notin tick_done
    /\ tick_done' = tick_done \cup {"update_paddle"}
    /\ IF world.paddle # 1
       THEN /\ panic' = "single_mut"
            /\ UNCHANGED paddle_x
       ELSE /\ panic' = panic
            /\ paddle_x' = new_paddle_x(paddle_x, paddle_momentum)
    /\ UNCHANGED << motion_frame, ball_pos, ball_v, paddle_momentum >>
    /\ UNCHANGED pure_vars

\* What collide() may report for the paddle.  The deflection of a face hit
\* reads the angle of the velocity, which the arcsine scale gives for unit
\* pairs only: a face hit is drawn while the velocity is such a pair.
PaddleCollisions ==
    {c \in Collisions : c \in {"Top", "Bottom"} => OnCircle(ball_v)}

\* check_paddle_collision: the loop ends at the first paddle the ball
\* collides with.
check_paddle_collision ==
    /\ pc = "Tick"
    /\ Running
    /\ physics
    /\ "check_paddle_collision" \notin tick_done
    /\ tick_done' = tick_done \cup {"check_paddle_collision"}
    /\ IF world.ball # 1
       THEN /\ panic' = "single_mut"
            /\ UNCHANGED ball_v
       ELSE /\ panic' = panic
            /\ ball_v' \in
                   {IF collision = "None" \/ world.paddle = 0 THEN ball_v
                    ELSE paddle_collision(collision, [v |-> ball_v, len |-> 1],
                                          paddle_momentum).v :
                        collision \in PaddleCollisions}
    /\ UNCHANGED << motion_frame, ball_pos, paddle_x, paddle_momentum >>
    /\ UNCHANGED pure_vars

\* The colliders of check_wall_collision, in query order: Wall without
\* BottomWall.
SideWalls == << "WallLeft", "WallRight", "WallTop" >>

\* The loop of check_wall_collision: ball_ricochet for every wall the ball
\* collides with.
RECURSIVE WallPass(_, _, _)
WallPass(v, order, collision) ==
    IF order = << >> THEN v
    ELSE WallPass(IF collision[Head(order)] = "None" THEN v
                  ELSE ball_ricochet(collision[Head(order)], v),
                  Tail(order), collision)

\* check_wall_collision.
check_wall_collision ==
    /\ pc = "Tick"
    /\ Running
    /\ physics
    /\ "check_wall_collision" \notin tick_done
    /\ tick_done' = tick_done \cup {"check_wall_collision"}
    /\ IF world.ball # 1
       THEN /\ panic' = "single_mut"
            /\ UNCHANGED ball_v
       ELSE /\ panic' = panic
            /\ ball_v' \in
                   {IF world.wall = 0 THEN ball_v
                    ELSE WallPass(ball_v, SideWalls, collision) :
                        collision \in [{"WallLeft", "WallRight", "WallTop"} -> Collisions]}
    /\ UNCHANGED << motion_frame, ball_pos, paddle_x, paddle_momentum >>
    /\ UNCHANGED pure_vars

\* The end of one run of the FixedUpdate schedule: its deferred commands
\* (the despawn of the bricks that reached strength 0) are applied.
fixed_update_apply_deferred ==
    /\ pc = "Tick"
    /\ Running
    /\ tick_done = TickSystems
    /\ bricks' = Restrict(bricks, (DOMAIN bricks) \ fixed_cmds)
    /\ fixed_cmds' = {}
    /\ tick_done' = {}
    /\ ticks_run' = ticks_run + 1
    /\ pc' = "FixedLoop"
    /\ UNCHANGED << upd_done, app_state, next_state, app_events, game_state,
                    game_events, player_msgs, brick_tracker, level, health, score,
                    world, blinking, visible, health_text, update_cmds, panic, exited,
                    hist_vars >>
    /\ bottom_collision' = "NotRun"
    /\ brick_overlap' = {}
    /\ UNCHANGED << physics, frames, ball_pos, ball_v, paddle_x,
                    paddle_momentum >>
    /\ UNCHANGED pure_vars

\* ------------------------------------------------- the Update schedule

\* The systems of the Update schedule that the outer state lets run.
UpdateSystems ==
    {"handle_transition_request", "blink", "health_handler"}
        \cup (IF app_state = "Exit" THEN {"exit_system"} ELSE {})
        \cup (IF app_state \in {"MainMenu", "GameOver"} THEN {"menu_sys"} ELSE {})
        \cup (IF app_state = "InGame"
              THEN {"transition_game", "manage_game", "game_aux_keys_handler"}
              ELSE {})

Send(q, ev) == Append(q, << ev, 0 >>)

\* Mutant: the first request of the frame stays.
QueueStates_first_wins(ns, q) ==
    IF q = << >> THEN ns ELSE AppTarget(Head(q)[1])

\* handle_transition_request: every request sets NextState; the last one stays.
RECURSIVE QueueStates(_, _)
QueueStates(ns, q) ==
    IF q = << >> THEN ns ELSE QueueStates(AppTarget(Head(q)[1]), Tail(q))

handle_transition_request ==
    /\ pc = "Update"
    /\ Running
    /\ "handle_transition_request" \notin upd_done
    /\ upd_done' = upd_done \cup {"handle_transition_request"}
    /\ next_state' = QueueStates(next_state, app_events)
    /\ app_events' = << >>
    /\ handled' = [i \in 1 .. Len(app_events) |-> app_events[i][1]]
    /\ UNCHANGED << pc, ticks_run, tick_done, app_state, game_state, game_events,
                    player_msgs, brick_tracker, level, health, score, bricks, world,
                    blinking, visible, health_text, fixed_cmds, update_cmds, panic,
                    exited, hits, accepted, window_losses, nl_emitted,
                    menu_requested >>
    /\ UNCHANGED << physics_vars, pure_vars >>

\* Mutant: exit_system sends nothing.
exit_system_silent ==
    /\ pc = "Update"
    /\ Running
    /\ app_state = "Exit"
    /\ "exit_system" \notin upd_done
    /\ upd_done' = upd_done \cup {"exit_system"}
    /\ exited' = exited
    /\ UNCHANGED << pc, ticks_run, tick_done, app_state, next_state, app_events,
                    game_state, game_events, player_msgs, brick_tracker, level,
                    health, score, bricks, world, blinking, visible, health_text,
                    fixed_cmds, update_cmds, panic, hist_vars >>
    /\ UNCHANGED << physics_vars, pure_vars >>

\* exit_system, run while AppState is Exit.
exit_system ==
    /\ pc = "Update"
    /\ Running
    /\ app_state = "Exit"
    /\ "exit_system" \notin upd_done
    /\ upd_done' = upd_done \cup {"exit_system"}
    /\ exited' = TRUE
    /\ UNCHANGED << pc, ticks_run, tick_done, app_state, next_state, app_events,
                    game_state, game_events, player_msgs, brick_tracker, level,
                    health, score, bricks, world, blinking, visible, health_text,
                    fixed_cmds, update_cmds, panic, hist_vars >>
    /\ UNCHANGED << physics_vars, pure_vars >>

\* The messages of the two buttons of main_menu.
MenuButtons == {"ToInGame", "ToExit"}

\* menu_sys, run while AppState is MainMenu or GameOver: the main menu
\* shows two buttons, and a pressed button sends its message.
menu_sys ==
    /\ pc = "Update"
    /\ Running
    /\ app_state \in {"MainMenu", "GameOver"}
    /\ "menu_sys" \notin upd_done
    /\ upd_done' = upd_done \cup {"menu_sys"}
    /\ \E press \in MenuButtons \cup {"None"} :
           app_events' = IF app_state = "MainMenu" /\ press # "None"
                         THEN Send(app_events, press)
                         ELSE app_events
    /\ UNCHANGED << pc, ticks_run, tick_done, app_state, next_state, game_state,
                    game_events, player_msgs, brick_tracker, level, health, score,
                    bricks, world, blinking, visible, health_text, fixed_cmds,
                    update_cmds, panic, exited, hist_vars >>
    /\ UNCHANGED << physics_vars, pure_vars >>

\* The NextLevel arm of transition_game.
next_level(st) ==
    LET lvl == st.level + 1
        sb == spawn_bricks(lvl)
    IN  IF sb.panic # "none"
        THEN [st EXCEPT !.level = lvl, !.panic = sb.panic]
        ELSE IF world.ball = 0 \/ world.paddle = 0
        THEN [st EXCEPT !.level = lvl, !.tracker = sb.num_bricks,
                        !.cmds = Append(@, [cmd |-> "SpawnBricks", spawned |-> sb.spawned]),
                        !.panic = "unwrap on None"]
        ELSE [st EXCEPT !.level = lvl, !.tracker = sb.num_bricks,
                        !.cmds = Append(@, [cmd |-> "SpawnBricks", spawned |-> sb.spawned]),
                        !.ball_pos = BALL_STARTING_POSITION,
                        !.paddle_x = PADDLE_STARTING_POSITION_X,
                        !.nl = 0]

\* The ToGameOver arm of transition_game.
game_over(st) == [st EXCEPT !.panic = "You lost"]

\* One request of the loop of transition_game.
transition(st, request) ==
    CASE request = "ToUninitialized" ->
            [st EXCEPT !.cmds = Append(@, [cmd |-> "DespawnAll",
                                           bricks |-> DOMAIN bricks,
                                           world |-> world]),
                       !.gs = "Uninitialized"]
      [] request = "ToPlayGame" -> [st EXCEPT !.gs = "Playing"]
      [] request = "ToHaltGame" -> [st EXCEPT !.gs = "Paused"]
      [] request = "NextLevel" -> next_level(st)
      [] request = "ToGameOver" -> game_over(st)

RECURSIVE TransitionLoop(_, _)
TransitionLoop(st, q) ==
    IF q = << >> \/ st.panic # "none" THEN st
    ELSE TransitionLoop(transition(st, Head(q)[1]), Tail(q))

\* transition_game.
transition_game ==
    /\ pc = "Update"
    /\ Running
    /\ app_state = "InGame"
    /\ "transition_game" \notin upd_done
    /\ upd_done' = upd_done \cup {"transition_game"}
    /\ LET st == TransitionLoop(
                    [gs |-> game_state, level |-> level, tracker |-> brick_tracker,
                     cmds |-> update_cmds, panic |-> "none", nl |-> nl_emitted,
                     ball_pos |-> ball_pos, paddle_x |-> paddle_x],
                    game_events)
       IN  /\ game_state' = st.gs
           /\ ball_pos' = st.ball_pos
           /\ paddle_x' = st.paddle_x
           /\ level' = st.level
           /\ brick_tracker' = st.tracker
           /\ update_cmds' = st.cmds
           /\ panic' = st.panic
           /\ nl_emitted' = st.nl
    /\ game_events' = << >>
    /\ UNCHANGED << pc, ticks_run, tick_done, app_state, next_state, app_events,
                    player_msgs, health, score, bricks, world, blinking,
                    visible, health_text, fixed_cmds, exited, hits, accepted, window_losses,
                    menu_requested, handled >>
    /\ UNCHANGED << physics, frames, ball_v, paddle_momentum,
                    bottom_collision, brick_overlap >>
    /\ UNCHANGED pure_vars

\* manage_game, after transition_game.
manage_game ==
    /\ pc = "Update"
    /\ Running
    /\ app_state = "InGame"
    /\ "transition_game" \in upd_done
    /\ "manage_game" \notin upd_done
    /\ upd_done' = upd_done \cup {"manage_game"}
    /\ CASE game_state = "Uninitialized" ->
                LET sb == spawn_bricks(level)
                IN  /\ update_cmds' =
                            update_cmds \o
                            << [cmd |-> "Setup"],
                               [cmd |-> "SpawnBricks", spawned |-> sb.spawned] >>
                    /\ panic' = sb.panic
                    /\ brick_tracker' = IF sb.panic = "none" THEN sb.num_bricks
                                        ELSE brick_tracker
                    /\ game_events' = IF sb.panic = "none"
                                      THEN Send(game_events, "ToPlayGame")
                                      ELSE game_events
                    /\ UNCHANGED nl_emitted
         [] game_state = "Playing" ->
                LET q1 == IF brick_tracker = 0
                          THEN Send(game_events, "NextLevel") ELSE game_events
                    q2 == IF health = 0 THEN Send(q1, "ToGameOver") ELSE q1
                IN  /\ game_events' = q2
                    /\ nl_emitted' = IF brick_tracker = 0
                                     THEN Min(nl_emitted + 1, MaxEmitted)
                                     ELSE nl_emitted
                    /\ UNCHANGED << update_cmds, panic, brick_tracker >>
         [] OTHER ->
                UNCHANGED << update_cmds, panic, brick_tracker, game_events,
                             nl_emitted >>
    /\ UNCHANGED << pc, ticks_run, tick_done, app_state, next_state, app_events,
                    game_state, player_msgs, level, health, score, bricks, world,
                    blinking, visible, health_text, fixed_cmds, exited, hits, accepted,
                    window_losses, menu_requested, handled >>
    /\ UNCHANGED << physics_vars, pure_vars >>

\* game_aux_keys_handler, after manage_game: Return and Escape just pressed.
game_aux_keys_handler ==
    /\ pc = "Update"
    /\ Running
    /\ app_state = "InGame"
    /\ "manage_game" \in upd_done
    /\ "game_aux_keys_handler" \notin upd_done
    /\ upd_done' = upd_done \cup {"game_aux_keys_handler"}
    /\ \E return_key \in BOOLEAN, escape_key \in BOOLEAN :
           LET q1 == IF return_key THEN Send(game_events, "ToPlayGame")
                     ELSE game_events
           IN  game_events' = IF escape_key THEN Send(q1, "ToHaltGame") ELSE q1
    /\ UNCHANGED << pc, ticks_run, tick_done, app_state, next_state, app_events,
                    game_state, player_msgs, brick_tracker, level, health, score,
                    bricks, world, blinking, visible, health_text, fixed_cmds,
                    update_cmds, panic, exited, hist_vars >>
    /\ UNCHANGED << physics_vars, pure_vars >>

\* Timer::tick of a TimerMode::Once timer: the elapsed time stops at the duration.
TimerTick(elapsed, delta) == Min(elapsed + delta, BLINK_DURATION)

\* blink: r = (percent_left % (1/5)) * 100 * 5, Inherited (visible) iff r <= 50.
\* With percent_left = (D - elapsed) / D this is 2 * ((5 * (D - elapsed)) % D) <= D.
BlinkVisible(elapsed) ==
    2 * ((5 * (BLINK_DURATION - elapsed)) % BLINK_DURATION) <= BLINK_DURATION

TimerFinished(elapsed) == elapsed >= BLINK_DURATION

\* blink, the first system of the group that runs while CurrentState is
\* Playing; the condition of the group is evaluated once per frame, when its
\* first system is about to run.  The code leaves blink and health_handler
\* unordered; they commute (blink writes timers and visibility and defers the
\* removal of Blinking, health_handler only tests the presence of Blinking
\* and defers its insertion), so running blink first loses no behaviour.
blink ==
    /\ pc = "Update"
    /\ Running
    /\ "blink" \notin upd_done
    /\ IF game_state # "Playing"
       THEN /\ upd_done' = upd_done \cup {"blink", "health_handler"}
            /\ UNCHANGED << blinking, visible, update_cmds >>
       ELSE /\ upd_done' = upd_done \cup {"blink"}
            /\ \E delta \in 0 .. BLINK_DURATION :
                LET ticked == [e \in Blinkers |->
                                 IF blinking[e] = NoBlinking THEN NoBlinking
                                 ELSE TimerTick(blinking[e], delta)]
                    done == {e \in Blinkers :
                                ticked[e] # NoBlinking /\ TimerFinished(ticked[e])}
                IN  /\ blinking' = ticked
                    /\ visible' = [e \in Blinkers |->
                                     IF ticked[e] = NoBlinking THEN visible[e]
                                     ELSE IF e \in done THEN TRUE
                                     ELSE BlinkVisible(ticked[e])]
                    /\ update_cmds' =
                            update_cmds \o
                            [i \in 1 .. Cardinality(done) |->
                                [cmd |-> "RemoveBlinking",
                                 entity |-> SetToSeq(done)[i]]]
    /\ UNCHANGED << pc, ticks_run, tick_done, app_state, next_state, app_events,
                    game_state, game_events, player_msgs, brick_tracker, level,
                    health, score, bricks, world, health_text, fixed_cmds, panic,
                    exited, hist_vars >>
    /\ UNCHANGED << physics_vars, pure_vars >>

\* Mutant: health is decremented without the test for 0.
lose_health_unguarded(st) ==
    [st EXCEPT !.health = @ - 1, !.accepted = @ + 1, !.window = @ + 1,
               !.text = st.health - 1,
               !.cmds = @ \o << [cmd |-> "InsertBlinking", entity |-> "paddle"],
                                [cmd |-> "InsertBlinking", entity |-> "ball"] >>]

\* The JustLostHealth arm of health_handler for a paddle that is not
\* blinking: at 0 health a ToMainMenu request, else one health less and a
\* Blinking component for the paddle and for the ball (single_mut() panics
\* without exactly one ball).
lose_health(st) ==
    IF st.health = 0
    THEN [st EXCEPT !.events = Send(@, "ToMainMenu"), !.menu = TRUE,
                    !.text = st.health]
    ELSE IF world.ball # 1
    THEN [st EXCEPT !.health = @ - 1, !.accepted = @ + 1, !.window = @ + 1,
                    !.cmds = Append(@, [cmd |-> "InsertBlinking", entity |-> "paddle"]),
                    !.panic = "single_mut"]
    ELSE [st EXCEPT !.health = @ - 1, !.accepted = @ + 1, !.window = @ + 1,
                    !.text = st.health - 1,
                    !.cmds = @ \o << [cmd |-> "InsertBlinking", entity |-> "paddle"],
                                     [cmd |-> "InsertBlinking", entity |-> "ball"] >>]

\* One message of the loop of health_handler: the paddle is looked up
\* (single_mut() panics without exactly one), and the message is skipped
\* while the paddle carries a Blinking component.
player_message(st) ==
    IF world.paddle # 1 THEN [st EXCEPT !.panic = "single_mut"]
    ELSE IF blinking["paddle"] # NoBlinking THEN st
    ELSE lose_health(st)

RECURSIVE HealthLoop(_, _)
HealthLoop(st, n) ==
    IF n = 0 \/ st.panic # "none" THEN st
    ELSE HealthLoop(player_message(st), n - 1)

\* health_handler, in the group that runs while CurrentState is Playing.
health_handler ==
    /\ pc = "Update"
    /\ Running
    /\ "blink" \in upd_done
    /\ "health_handler" \notin upd_done
    /\ upd_done' = upd_done \cup {"health_handler"}
    /\ LET st == HealthLoop(
                    [health |-> health, cmds |-> update_cmds, events |-> app_events,
                     panic |-> "none", accepted |-> accepted,
                     window |-> window_losses, menu |-> menu_requested,
                     text |-> health_text],
                    player_msgs[1] + player_msgs[2])
       IN  /\ health' = st.health
           /\ health_text' = st.text
           /\ update_cmds' = st.cmds
           /\ app_events' = st.events
           /\ panic' = st.panic
           /\ accepted' = st.accepted
           /\ window_losses' = st.window
           /\ menu_requested' = st.menu
           /\ UNCHANGED handled
    /\ player_msgs' = << 0, 0 >>
    /\ UNCHANGED << pc, ticks_run, tick_done, app_state, next_state, game_state,
                    game_events, brick_tracker, level, score, bricks, world,
                    blinking, visible, fixed_cmds, exited, hits, nl_emitted >>
    /\ UNCHANGED << physics_vars, pure_vars >>

\* Mutant: setup spawns no ball.
apply_command_no_ball(w, c) ==
    CASE c.cmd = "Setup" ->
            [w EXCEPT !.world = [ball |-> @.ball, paddle |-> @.paddle + 1,
                                 wall |-> @.wall + 4],
                      !.text = HEALTH_DISPLAY_INITIAL]
      [] c.cmd = "SpawnBricks" ->
            [w EXCEPT !.bricks = Merge(@, c.spawned)]
      [] c.cmd = "DespawnAll" ->
            [w EXCEPT !.world = [ball |-> @.ball - c.world.ball,
                                 paddle |-> @.paddle - c.world.paddle,
                                 wall |-> @.wall - c.world.wall],
                      !.bricks = Restrict(@, (DOMAIN @) \ c.bricks),
                      !.blinking = [e \in Blinkers |-> NoBlinking],
                      !.text = NoDisplay]
      [] c.cmd = "InsertBlinking" ->
            [w EXCEPT !.blinking[c.entity] = 0]
      [] c.cmd = "RemoveBlinking" ->
            [w EXCEPT !.blinking[c.entity] = NoBlinking,
                      !.window = IF c.entity = "paddle" THEN 0 ELSE @]

\* One deferred command of the Update schedule, applied to the world.
apply_command(w, c) ==
    CASE c.cmd = "Setup" ->
            [w EXCEPT !.world = [ball |-> @.ball + 1, paddle |-> @.paddle + 1,
                                 wall |-> @.wall + 4],
                      !.text = HEALTH_DISPLAY_INITIAL]
      [] c.cmd = "SpawnBricks" ->
            [w EXCEPT !.bricks = Merge(@, c.spawned)]
      [] c.cmd = "DespawnAll" ->
            [w EXCEPT !.world = [ball |-> @.ball - c.world.ball,
                                 paddle |-> @.paddle - c.world.paddle,
                                 wall |-> @.wall - c.world.wall],
                      !.bricks = Restrict(@, (DOMAIN @) \ c.bricks),
                      !.blinking = [e \in Blinkers |-> NoBlinking],
                      !.text = NoDisplay]
      [] c.cmd = "InsertBlinking" ->
            [w EXCEPT !.blinking[c.entity] = 0]
      [] c.cmd = "RemoveBlinking" ->
            [w EXCEPT !.blinking[c.entity] = NoBlinking,
                      !.window = IF c.entity = "paddle" THEN 0 ELSE @]

RECURSIVE ApplyCommands(_, _)
ApplyCommands(w, cmds) ==
    IF cmds = << >> THEN w
    ELSE ApplyCommands(apply_command(w, Head(cmds)), Tail(cmds))

\* The end of the Update schedule: its deferred commands are applied, and
\* the frame is over.  After AppExit the application stops.
update_apply_deferred ==
    /\ pc = "Update"
    /\ Running
    /\ upd_done = UpdateSystems
    /\ LET w == ApplyCommands(
                    [world |-> world, bricks |-> bricks, blinking |-> blinking,
                     window |-> window_losses, text |-> health_text],
                    update_cmds)
       IN  /\ world' = w.world
           /\ health_text' = w.text
           /\ bricks' = w.bricks
           /\ blinking' = w.blinking
           /\ window_losses' = w.window
    /\ update_cmds' = << >>
    /\ upd_done' = {}
    /\ pc' = IF exited THEN "Exited" ELSE "First"
    /\ handled' = IF exited THEN handled ELSE << >>
    /\ UNCHANGED << ticks_run, tick_done, app_state, next_state, app_events,
                    game_state, game_events, player_msgs, brick_tracker, level,
                    health, score, visible, fixed_cmds, panic, exited, hits,
                    accepted, nl_emitted, menu_requested >>
    /\ UNCHANGED << physics_vars, pure_vars >>

Next ==
    \/ event_update_system
    \/ apply_state_transition
    \/ fixed_update_begin
    \/ fixed_update_end
    \/ check_brick_collisions
    \/ check_bottom_wall_collision
    \/ fixed_update_apply_deferred
    \/ handle_transition_request
    \/ exit_system
    \/ menu_sys
    \/ transition_game
    \/ manage_game
    \/ game_aux_keys_handler
    \/ blink
    \/ health_handler
    \/ update_apply_deferred

Spec == Init /\ [][Next]_vars

\* ----------------------------------- the game loop with the components

\* The first level as manage_game spawned it, and as it is after h ticks
\* in each of which the ball overlapped every live brick.
RECURSIVE LevelAfter(_)
LevelAfter(h) ==
    IF h = 0
    THEN [score |-> 0, tracker |-> spawn_bricks(STARTING_LEVEL).num_bricks,
          bricks |-> spawn_bricks(STARTING_LEVEL).spawned, despawn |-> {},
          panic |-> "none", hits |-> 0, v |-> INITIAL_BALL_DIRECTION]
    ELSE LET before == LevelAfter(h - 1)
             st == BrickPass(before, SetToSeq(DOMAIN before.bricks),
                             [id \in DOMAIN before.bricks |-> "Inside"])
         IN  [st EXCEPT !.bricks = Restrict(@, (DOMAIN @) \ st.despawn),
                        !.despawn = {}]

\* The paddle at rest where setup put it, and held against either wall.
PaddleStarts ==
    {<< PADDLE_STARTING_POSITION_X, 0 >>,
     << PADDLE_LEFT_BOUND, -PADDLE_MAX_MOMENTUM >>,
     << PADDLE_RIGHT_BOUND, PADDLE_MAX_MOMENTUM >>}

\* SpecPhysics starts at the beginning of a frame of a level in play: setup
\* has run, CurrentState is Playing, no event is pending, and the level is
\* fresh or down to its last hit.
PhysicsLoopInit ==
    /\ pc = "First"
    /\ ticks_run = 0
    /\ tick_done = {}
    /\ upd_done = {}
    /\ app_state = "InGame"
    /\ next_state = "None"
    /\ app_events = << >>
    /\ game_state = "Playing"
    /\ game_events = << >>
    /\ player_msgs = << 0, 0 >>
    /\ level = STARTING_LEVEL
    /\ health = PLAYER_STARTING_HEALTH
    /\ \E h \in 0 .. MaxPlayed :
           /\ brick_tracker = LevelAfter(h).tracker
           /\ score = LevelAfter(h).score
           /\ bricks = LevelAfter(h).bricks
           /\ hits = LevelAfter(h).hits
    /\ world = [ball |-> 1, paddle |-> 1, wall |-> 4]
    /\ blinking = [e \in Blinkers |-> NoBlinking]
    /\ visible = [e \in Blinkers |-> TRUE]
    /\ health_text = HEALTH_DISPLAY_INITIAL
    /\ fixed_cmds = {}
    /\ update_cmds = << >>
    /\ panic = "none"
    /\ exited = FALSE
    /\ accepted = 0
    /\ window_losses = 0
    /\ nl_emitted = 0
    /\ menu_requested = FALSE
    /\ handled = << >>
    /\ physics = TRUE
    /\ frames = 0
    /\ ball_pos = BALL_STARTING_POSITION
    /\ ball_v = INITIAL_BALL_DIRECTION
    /\ \E start \in PaddleStarts :
           /\ paddle_x = start[1]
           /\ paddle_momentum = start[2]
    /\ bottom_collision = "NotRun"
    /\ brick_overlap = {}
    /\ RicochetIdle
    /\ PaddleIdle
    /\ DeflectIdle
    /\ BlinkIdle
    /\ SoundIdle

NextPhysics ==
    \/ event_update_system
    \/ apply_state_transition
    \/ fixed_update_begin
    \/ fixed_update_end
    \/ move_ball
    \/ update_paddle_momentum
    \/ update_paddle
    \/ check_brick_collisions
    \/ check_bottom_wall_collision
    \/ check_paddle_collision
    \/ check_wall_collision
    \/ fixed_update_apply_deferred
    \/ handle_transition_request
    \/ transition_game
    \/ manage_game
    \/ game_aux_keys_handler
    \/ blink
    \/ health_handler
    \/ update_apply_deferred

SpecPhysics == PhysicsLoopInit /\ [][NextPhysics]_vars

\* ------------------------------------------------ ball_ricochet alone

\* A collision side and a velocity are drawn; nothing is applied yet.
RicochetInit ==
    /\ LoopInit
    /\ physics = FALSE
    /\ PhysicsInit
    /\ PaddleIdle
    /\ DeflectIdle
    /\ BlinkIdle
    /\ SoundIdle
    /\ r_side \in Sides
    /\ r_in \in (-MaxV .. MaxV) \X (-MaxV .. MaxV)
    /\ r_out = r_in
    /\ r_n = 0

\* One more call of ball_ricochet with the same side, on the velocity the
\* previous call left.
apply_ball_ricochet ==
    /\ r_n < MaxCalls
    /\ r_out' = ball_ricochet(r_side, r_out)
    /\ r_n' = r_n + 1
    /\ UNCHANGED << r_side, r_in, loop_vars, physics_vars, paddle_vars,
                    deflect_vars, blink_vars, sound_vars >>

RicochetNext == apply_ball_ricochet

SpecRicochet == RicochetInit /\ [][RicochetNext]_vars

\* ----------------------------------------------- update_paddle alone

\* Positions of the paddle drawn in SpecPaddle: where setup puts it, at
\* either bound, and within one tick's travel of either bound.
PaddleXs ==
    {PADDLE_STARTING_POSITION_X,
     PADDLE_LEFT_BOUND, PADDLE_LEFT_BOUND + 1,
     PADDLE_LEFT_BOUND + PADDLE_MAX_MOMENTUM,
     PADDLE_RIGHT_BOUND, PADDLE_RIGHT_BOUND - 1,
     PADDLE_RIGHT_BOUND - PADDLE_MAX_MOMENTUM}

\* A paddle position and a momentum in its clamped range are drawn.
PaddleInit ==
    /\ LoopInit
    /\ physics = FALSE
    /\ PhysicsInit
    /\ RicochetIdle
    /\ DeflectIdle
    /\ BlinkIdle
    /\ SoundIdle
    /\ p_x \in PaddleXs
    /\ p_m \in -PADDLE_MAX_MOMENTUM .. PADDLE_MAX_MOMENTUM
    /\ p_n = 0
    /\ p_op = "none"
    /\ p_from = p_x
    /\ p_keys = << FALSE, FALSE >>

paddle_frame ==
    << loop_vars, physics_vars, ricochet_vars, deflect_vars, blink_vars,
       sound_vars >>

\* update_paddle_momentum on the drawn momentum, for any keys held.
apply_update_paddle_momentum ==
    /\ p_n < MaxSteps
    /\ \E left \in BOOLEAN, right \in BOOLEAN :
           /\ p_m' = new_paddle_momentum(p_m, left, right)
           /\ p_keys' = << left, right >>
    /\ p_n' = p_n + 1
    /\ p_op' = "update_paddle_momentum"
    /\ p_from' = p_x
    /\ UNCHANGED << p_x, paddle_frame >>

\* update_paddle on the position and the momentum.
apply_update_paddle ==
    /\ p_n < MaxSteps
    /\ p_x' = new_paddle_x(p_x, p_m)
    /\ p_n' = p_n + 1
    /\ p_op' = "update_paddle"
    /\ p_from' = p_x
    /\ UNCHANGED << p_m, p_keys, paddle_frame >>

\* The paddle reset of the NextLevel arm of transition_game.
apply_next_level_reset ==
    /\ p_n < MaxSteps
    /\ p_x' = PADDLE_STARTING_POSITION_X
    /\ p_n' = p_n + 1
    /\ p_op' = "next_level"
    /\ p_from' = p_x
    /\ UNCHANGED << p_m, p_keys, paddle_frame >>

PaddleNext ==
    \/ apply_update_paddle_momentum
    \/ apply_update_paddle
    \/ apply_next_level_reset

SpecPaddle == PaddleInit /\ [][PaddleNext]_vars

\* ---------------------------------------- the paddle deflection alone

\* Directions drawn in SpecDeflect: the unit vectors whose angle to the y
\* axis is a multiple of an eighth of a turn.
DeflectVs ==
    {v \in (-QuarterTurn .. QuarterTurn) \X (-QuarterTurn .. QuarterTurn) :
        OnCircle(v) /\ v[1] % (QuarterTurn \div 2) = 0}

\* A ControlStyle, a collision side, a velocity and a paddle momentum in its
\* clamped range are drawn; nothing is applied yet.
DeflectInit ==
    /\ LoopInit
    /\ physics = FALSE
    /\ PhysicsInit
    /\ RicochetIdle
    /\ PaddleIdle
    /\ BlinkIdle
    /\ SoundIdle
    /\ d_style \in ControlStyles
    /\ d_side \in Sides
    /\ d_v \in DeflectVs
    /\ d_len \in 1 .. MaxLen
    /\ d_m \in -PADDLE_MAX_MOMENTUM .. PADDLE_MAX_MOMENTUM
    /\ d_out = [v |-> d_v, len |-> d_len]
    /\ d_n = 0

\* The paddle pass finds the ball on the drawn side of the paddle.
apply_paddle_collision ==
    /\ d_n = 0
    /\ d_out' = paddle_collision_with(d_style, d_side, d_out, d_m)
    /\ d_n' = 1
    /\ UNCHANGED << d_style, d_side, d_v, d_len, d_m, loop_vars, physics_vars,
                    ricochet_vars, paddle_vars, blink_vars, sound_vars >>

DeflectNext == apply_paddle_collision

SpecDeflect == DeflectInit /\ [][DeflectNext]_vars

\* ---------------------------------------------------------- claims

\* C11: the paddle x lies in [PADDLE_LEFT_BOUND, PADDLE_RIGHT_BOUND]: when it
\* is drawn, after update_paddle for any momentum in
\* [-PADDLE_MAX_MOMENTUM, PADDLE_MAX_MOMENTUM] and any starting x in the
\* bounds, and after the paddle reset of NextLevel.
C11_PaddleInBounds ==
    /\ PADDLE_LEFT_BOUND <= p_x
    /\ p_x <= PADDLE_RIGHT_BOUND
    /\ Abs(p_m) <= PADDLE_MAX_MOMENTUM

\* C11 witness: update_paddle has stopped a paddle at the right bound that
\* its momentum would have carried past it.
C11_Witness ==
    /\ p_op = "update_paddle"
    /\ p_from + p_m > PADDLE_RIGHT_BOUND
    /\ p_from < PADDLE_RIGHT_BOUND
    /\ p_x = PADDLE_RIGHT_BOUND

\* C9: for every side and every velocity, ball_ricochet negates vx iff
\* (side = Left and vx > 0) or (side = Right and vx < 0), negates vy iff
\* (side = Top and vy < 0) or (side = Bottom and vy > 0), changes nothing
\* for Inside, and alters nothing else.
C9_RicochetRule ==
    r_n = 1 =>
        LET negate_x == \/ r_side = "Left" /\ r_in[1] > 0
                        \/ r_side = "Right" /\ r_in[1] < 0
            negate_y == \/ r_side = "Top" /\ r_in[2] < 0
                        \/ r_side = "Bottom" /\ r_in[2] > 0
        IN  /\ r_out[1] = (IF negate_x THEN 0 - r_in[1] ELSE r_in[1])
            /\ r_out[2] = (IF negate_y THEN 0 - r_in[2] ELSE r_in[2])
            /\ Len(r_out) = 2
            /\ r_side = "Inside" => r_out = r_in

\* C9 witness: a Left collision of a ball moving right has turned it round.
C9_Witness ==
    /\ r_n = 1
    /\ r_side = "Left"
    /\ r_in[1] > 0
    /\ r_out[1] = 0 - r_in[1]
    /\ r_out[2] = r_in[2]

\* C10 as stated: two calls of ball_ricochet in a row with the same side
\* give back the velocity the first call started from.
C10_TwiceIsIdentity == r_n = 2 => r_out = r_in

\* C10, amended: the second of two calls of ball_ricochet in a row with the
\* same side changes nothing, so two calls give what one call gives.
C10_SecondCallChangesNothing ==
    [][(r_n = 1 /\ r_n' = 2) => r_out' = r_out]_vars

\* C10 witness: after two calls the ball is still turned round.
C10_Witness ==
    /\ r_n = 2
    /\ r_side = "Bottom"
    /\ r_in[2] > 0
    /\ r_out[2] = 0 - r_in[2]

\* No deferred command is waiting: a tick or frame boundary, or a point of
\* a schedule run before any command was queued.
AtBoundary == fixed_cmds = {} /\ update_cmds = << >>

\* A step of the brick pass.
BrickPassStep ==
    /\ "check_brick_collisions" \notin tick_done
    /\ "check_brick_collisions" \in tick_done'

\* A step that queues a SpawnBricks command, i.e. that called spawn_bricks.
SpawnStep ==
    /\ Len(update_cmds') > Len(update_cmds)
    /\ update_cmds'[Len(update_cmds')].cmd = "SpawnBricks"

\* C1: at every tick or frame boundary the brick counter equals the number
\* of live Brick entities; every brick the brick pass removes is paired with
\* exactly one decrement of the counter; every spawn_bricks call sets the
\* counter to the number of bricks it spawns.
C1_TrackerCountsBricks ==
    /\ [](AtBoundary => brick_tracker = Cardinality(DOMAIN bricks))
    /\ [][BrickPassStep =>
            brick_tracker - brick_tracker' = Cardinality(fixed_cmds' \ fixed_cmds)]_vars
    /\ [][SpawnStep =>
            brick_tracker' =
                Cardinality(DOMAIN update_cmds'[Len(update_cmds')].spawned)]_vars

\* C1 witness: in the second level, after a respawn, one of the two bricks
\* has been removed.
C1_Witness ==
    /\ AtBoundary
    /\ level = 2
    /\ brick_tracker = 1
    /\ Cardinality(DOMAIN bricks) = 1
    /\ hits = 4

\* C2: for one clear of the bricks, manage_game sends one NextLevel request
\* and no more: never a second one before transition_game has processed the
\* first and the counter is non-zero again.
C2_OneNextLevelPerClear == nl_emitted <= 1

\* C3: health lost while a blink window is on the paddle: after the event
\* that costs health and opens the window, no further event costs health
\* until the window has expired.
C3_OneLossPerWindow == window_losses <= 1

\* C4: processing a ToGameOver request never aborts the process.
C4_GameOverDoesNotAbort == panic # "You lost"

\* C5: once health_handler has requested ToMainMenu at health 0, AppState
\* becomes MainMenu: the process does not end with the request unserved.
C5_MenuRequestServed == ~(menu_requested /\ panic # "none")

\* A step of health_handler.
HealthHandlerStep ==
    /\ "health_handler" \notin upd_done
    /\ "health_handler" \in upd_done'
    /\ "blink" \in upd_done

\* C6: health is always in 0 .. PLAYER_STARTING_HEALTH; only health_handler
\* changes it, by exactly 1 down for each event it accepts; it is never
\* decremented at 0.
C6_HealthRange ==
    /\ [](health \in 0 .. PLAYER_STARTING_HEALTH)
    /\ [](health = PLAYER_STARTING_HEALTH - accepted)
    /\ [][health' # health => HealthHandlerStep]_vars
    /\ [][health - health' = accepted' - accepted]_vars
    /\ [][(health = 0) => (health' = 0)]_vars

\* C6 witness: health is 0 after three accepted events, and an event that
\* arrived at 0 health has left it at 0.
C6_Witness ==
    /\ health = 0
    /\ accepted = PLAYER_STARTING_HEALTH
    /\ menu_requested

\* C7: the score starts at 0, never decreases, is 10 for every brick hit so
\* far, and changes only in the brick pass: the bottom-wall pass, the level
\* transitions and the loss of health leave it alone.
C7_ScoreCountsHits ==
    /\ score = 0
    /\ [](score = HIT_SCORE * hits)
    /\ [][score' >= score]_vars
    /\ [][score' # score => BrickPassStep]_vars

\* C7 witness: three hits have scored 30, and since then a level was
\* cleared and health was lost.
C7_Witness ==
    /\ score = 30
    /\ hits = 3
    /\ level = 2
    /\ health < PLAYER_STARTING_HEALTH

\* The strength a brick was spawned with.
InitialStrength(id) == brick_layout(id[1])[id[2] + 1]

\* The bricks spawned so far, at a boundary: those of the levels from the
\* first to the current one, once the first-time setup has run.
SpawnedSoFar ==
    IF world.ball = 0 THEN {}
    ELSE UNION {BrickIds(lvl) : lvl \in {l \in STARTING_LEVEL .. level : LevelInRange(l)}}

\* Strength a brick has lost: all of it once it is removed.
StrengthLost(id) ==
    IF id \in DOMAIN bricks THEN InitialStrength(id) - bricks[id].strength
    ELSE InitialStrength(id)

\* Strength the bricks of S have lost together.
RECURSIVE TotalStrengthLost(_)
TotalStrengthLost(S) ==
    IF S = {} THEN 0
    ELSE LET x == CHOOSE y \in S : TRUE
         IN  StrengthLost(x) + TotalStrengthLost(S \ {x})

\* C8: a brick of initial strength s is in the world with strength s - k and
\* tint index s - k - 1 after k < s hits, the counter unchanged, and is
\* removed by hit s, the counter one less; the score it has brought is 10
\* for each strength it has lost, 10 * s once removed.
C8_BrickLifecycle ==
    /\ [](AtBoundary =>
            /\ \A id \in DOMAIN bricks :
                /\ bricks[id].strength \in 1 .. InitialStrength(id)
                /\ bricks[id].color = bricks[id].strength - 1
                /\ bricks[id].color \in BRICK_COLORS
            /\ DOMAIN bricks \subseteq SpawnedSoFar
            /\ score = HIT_SCORE * TotalStrengthLost(SpawnedSoFar)
            /\ hits = TotalStrengthLost(SpawnedSoFar))
    /\ [][BrickPassStep =>
            /\ DOMAIN bricks' = DOMAIN bricks
            /\ \A id \in DOMAIN bricks :
                \/ bricks'[id] = bricks[id]
                \/ /\ bricks'[id].strength = bricks[id].strength - 1
                   /\ (bricks'[id].strength = 0) <=> (id \in fixed_cmds' \ fixed_cmds)
                   /\ bricks'[id].strength > 0 =>
                        bricks'[id].color = bricks'[id].strength - 1
            /\ brick_tracker' =
                brick_tracker - Cardinality({id \in DOMAIN bricks :
                                                /\ bricks[id].strength > 0
                                                /\ bricks'[id].strength = 0})]_vars

\* C8 witness: the brick of initial strength 2 of the first level is gone
\* after exactly two hits, the counter is one less and the score is 20.
C8_Witness ==
    /\ AtBoundary
    /\ level = 1
    /\ InitialStrength(<< 1, 0, 0 >>) = 2
    /\ << 1, 0, 0 >> \notin DOMAIN bricks
    /\ << 1, 1, 0 >> \in DOMAIN bricks
    /\ bricks[<< 1, 1, 0 >>].strength = 1
    /\ brick_tracker = 1
    /\ hits = 2
    /\ score = 2 * HIT_SCORE

\* A step of the bottom-wall pass that did not panic.
BottomWallStep ==
    /\ "check_bottom_wall_collision" \notin tick_done
    /\ "check_bottom_wall_collision" \in tick_done'
    /\ panic' = "none"

\* C12: in a tick in which the ball overlaps the bottom wall, the bottom-wall
\* pass sends exactly one JustLostHealth event and leaves the score, every
\* brick's strength and the brick counter unchanged; in a tick without such
\* an overlap it sends none.
C12_BottomWallPass ==
    [][BottomWallStep =>
          /\ player_msgs'[1] = player_msgs[1]
          /\ bottom_collision' # "None" => player_msgs'[2] = player_msgs[2] + 1
          /\ bottom_collision' = "None" => player_msgs'[2] = player_msgs[2]
          /\ UNCHANGED << score, bricks, brick_tracker >>]_vars

\* C12 witness: the bottom-wall pass of the running tick found the ball in
\* the bottom wall and its JustLostHealth event is in the buffer, in a level
\* with live bricks and a score.
C12_Witness ==
    /\ pc = "Tick"
    /\ bottom_collision \notin {"NotRun", "None"}
    /\ player_msgs[2] = 1
    /\ score > 0
    /\ brick_tracker > 0

\* C13 as stated: the bottom-wall pass does not reflect the ball; when the
\* ball overlaps the bottom wall its velocity after the pass is its velocity
\* before the pass.
C13_BottomWallKeepsVelocity ==
    [][(BottomWallStep /\ bottom_collision' # "None") => ball_v' = ball_v]_vars

\* The four collision passes of FixedUpdate, in the order of the claims.
CollisionPasses ==
    << "check_brick_collisions", "check_bottom_wall_collision",
       "check_paddle_collision", "check_wall_collision" >>

\* C14 as stated: in every tick while Playing, move_ball runs before each of
\* the four collision passes; no schedule runs a pass before the integration.
C14_MoveBallBeforePasses ==
    \A i \in DOMAIN CollisionPasses :
        CollisionPasses[i] \in tick_done => "move_ball" \in tick_done

\* C15 as stated: in every tick the four collision passes run in the order
\* brick pass, bottom-wall pass, paddle pass, side-wall pass; no schedule
\* runs them in another order.
C15_PassesInFixedOrder ==
    \A i \in DOMAIN CollisionPasses : \A j \in DOMAIN CollisionPasses :
        (i < j /\ CollisionPasses[j] \in tick_done)
            => CollisionPasses[i] \in tick_done

\* A step of transition_game whose batch of requests is one NextLevel.
NextLevelStep ==
    /\ "transition_game" \notin upd_done
    /\ "transition_game" \in upd_done'
    /\ Len(game_events) = 1
    /\ game_events[1][1] = "NextLevel"

\* C16 as stated: processing a NextLevel request raises the level by exactly
\* 1, rebuilds the bricks for the new level and sets the brick counter to
\* the number spawned, and resets the ball and the paddle to their starting
\* positions; score, health, the inner game state, the ball velocity and the
\* paddle momentum are unchanged.
C16_NextLevelEffect ==
    [][NextLevelStep =>
          /\ level' = level + 1
          /\ Len(update_cmds') = Len(update_cmds) + 1
          /\ LET rebuilt == update_cmds'[Len(update_cmds')]
             IN  /\ rebuilt.cmd = "SpawnBricks"
                 /\ rebuilt.spawned = spawn_bricks(level').spawned
                 /\ DOMAIN rebuilt.spawned = BrickIds(level')
                 /\ brick_tracker' = Cardinality(DOMAIN rebuilt.spawned)
          /\ ball_pos' = BALL_STARTING_POSITION
          /\ paddle_x' = PADDLE_STARTING_POSITION_X
          /\ UNCHANGED << score, health, game_state, ball_v,
                          paddle_momentum >>]_vars

\* C17: whenever CurrentState is Playing there is exactly one Ball and
\* exactly one Paddle; setup never runs a second time, so there is never more
\* than one of either; and no system that expects a singleton fails on its
\* query.
C17_Singletons ==
    /\ game_state = "Playing" => (world.ball = 1 /\ world.paddle = 1)
    /\ world.ball <= 1
    /\ world.paddle <= 1
    /\ panic \notin {"single_mut", "unwrap on None"}

\* C17 witness: in the second level, after a pause and a loss of health, the
\* brick pass of a tick has run on the one ball.
C17_Witness ==
    /\ game_state = "Playing"
    /\ pc = "Tick"
    /\ "check_brick_collisions" \in tick_done
    /\ level = STARTING_LEVEL + 1
    /\ health < PLAYER_STARTING_HEALTH
    /\ world.ball = 1
    /\ world.paddle = 1
    /\ panic = "none"

\* C18 as stated: while CurrentState is Paused nothing that the tick-scoped
\* systems own changes: ball position and velocity, paddle position and
\* momentum, brick strengths and counter, score, health, and the elapsed
\* time of every blink timer.
C18_PausedFreezes ==
    [][(game_state = "Paused" /\ game_state' = "Paused") =>
          /\ UNCHANGED << ball_pos, ball_v, paddle_x, paddle_momentum, bricks,
                          brick_tracker, score, health >>
          /\ \A e \in Blinkers :
                (blinking[e] # NoBlinking /\ blinking'[e] # NoBlinking)
                    => blinking'[e] = blinking[e]]_vars

\* C19: AppState starts at MainMenu; once AppState is Exit it never becomes
\* another state; and AppExit is sent in the frame in which AppState is Exit,
\* after which the application has stopped.
C19_ExitIsTerminal ==
    /\ app_state = "MainMenu"
    /\ [][app_state = "Exit" => app_state' = "Exit"]_vars
    /\ []((app_state = "Exit" /\ pc \in {"First", "Exited"}) => exited)
    /\ [](pc = "Exited" => (app_state = "Exit" /\ exited))

\* C19 witness: the Exit button was pressed, AppState became Exit,
\* exit_system sent AppExit and the application stopped.
C19_Witness ==
    /\ pc = "Exited"
    /\ app_state = "Exit"
    /\ exited

\* C20: under the Edges and the Momentum ControlStyle, for every paddle
\* momentum in [-PADDLE_MAX_MOMENTUM, PADDLE_MAX_MOMENTUM] and every incoming
\* velocity, the length of the velocity after a Top or Bottom paddle
\* collision is its length before the collision.
C20_DeflectionKeepsLength ==
    (/\ d_n = 1
     /\ d_style \in {"Edges", "Momentum"}
     /\ d_side \in {"Top", "Bottom"})
        => (d_out.len = d_len /\ d_out.v # << 0, 0 >>)

\* C20 witness: a ball of length MaxLen coming straight down on the top of
\* a paddle at full momentum to the right leaves along the x axis with its
\* length.
C20_Witness ==
    /\ d_n = 1
    /\ d_style = "Momentum"
    /\ d_side = "Top"
    /\ d_v = << 0, -QuarterTurn >>
    /\ d_m = PADDLE_MAX_MOMENTUM
    /\ d_len = MaxLen
    /\ d_out.v[1] = QuarterTurn
    /\ d_out.len = MaxLen

\* A step of the side-wall pass, and of the paddle pass, that did not panic.
WallPassStep ==
    /\ "check_wall_collision" \notin tick_done
    /\ "check_wall_collision" \in tick_done'
    /\ panic' = "none"

PaddlePassStep ==
    /\ "check_paddle_collision" \notin tick_done
    /\ "check_paddle_collision" \in tick_done'
    /\ panic' = "none"

\* C21 as stated: the paddle pass and the side-wall pass each resolve at most
\* one collider per tick, so the velocity a pass leaves is the velocity it
\* found, or that velocity after the resolution of one collision, even when
\* the ball overlaps two walls at once.
C21_OneColliderPerPass ==
    [][/\ WallPassStep =>
              ball_v' \in {ball_v} \cup {ball_ricochet(c, ball_v) : c \in Sides}
       /\ PaddlePassStep =>
              ball_v' \in {ball_v} \cup
                  {paddle_collision(c, [v |-> ball_v, len |-> 1],
                                    paddle_momentum).v : c \in Sides}]_vars

\* C22: the brick pass resolves every brick the ball overlaps in a tick:
\* each of them loses exactly 1 strength and no other brick changes, the
\* score rises by 10 for each, and the brick counter falls by the number of
\* them that reached strength 0.
C22_BrickPassResolvesAll ==
    [][(BrickPassStep /\ panic' = "none") =>
          /\ DOMAIN bricks' = DOMAIN bricks
          /\ brick_overlap' \subseteq DOMAIN bricks
          /\ \A id \in DOMAIN bricks :
                /\ bricks[id].strength > 0
                /\ bricks'[id].strength =
                       bricks[id].strength - (IF id \in brick_overlap' THEN 1 ELSE 0)
          /\ score' = score + 10 * Cardinality(brick_overlap')
          /\ brick_tracker' = brick_tracker -
                 Cardinality({id \in brick_overlap' : bricks'[id].strength = 0})]_vars

\* C22 witness: the brick pass of the running tick found the ball on two
\* bricks; one of them is at strength 0 and the other is not, and both are
\* in the score.
C22_Witness ==
    /\ pc = "Tick"
    /\ panic = "none"
    /\ Cardinality(brick_overlap) = 2
    /\ \E id \in brick_overlap : bricks[id].strength = 0
    /\ \E id \in brick_overlap : bricks[id].strength > 0
    /\ score = 2 * HIT_SCORE
    /\ brick_tracker = Cardinality(DOMAIN bricks) - 1

\* C23 as stated: in update_paddle_momentum the target direction is +1
\* whenever right is held, whether or not left is held too, -1 when only
\* left is held and 0 when neither is held, and the momentum moves toward
\* that direction x PADDLE_SPEED x the tick period, for all four
\* combinations of the two keys.
C23_RightWins ==
    [][p_op' = "update_paddle_momentum" =>
          LET dir == IF p_keys'[2] THEN 1 ELSE IF p_keys'[1] THEN -1 ELSE 0
          IN  p_m' = clamp(lerp(p_m,
                                TruncDiv(dir * PADDLE_SPEED * Resolution,
                                         TICKS_PER_SECOND),
                                PADDLE_LERP_PERCENT),
                           -PADDLE_MAX_MOMENTUM, PADDLE_MAX_MOMENTUM)]_vars

\* The NextLevel requests transition_game is about to read.
NextLevelRequests ==
    Len(SelectSeq(game_events, LAMBDA e : e[1] = "NextLevel"))

\* A step of transition_game.
TransitionStep ==
    /\ "transition_game" \notin upd_done
    /\ "transition_game" \in upd_done'

\* C24: the level starts at 1 and rises by exactly 1 per processed NextLevel
\* and in no other step; spawn_bricks for level L reads entry L, counted
\* from 0, of the 5 entries of LEVELS, so the levels 1 to 4 are in range, the
\* NextLevel that follows level 4 fails with an index out of range, and
\* entry 0 is never read.
C24_LevelIndexesTable ==
    /\ level = 1
    /\ Len(LEVELS) = 5
    /\ [](level \in 1 .. 5)
    /\ [](level = 5 <=> panic = "index out of bounds")
    /\ [][IF TransitionStep /\ panic' \in {"none", "index out of bounds"}
          THEN level' = Min(level + NextLevelRequests, 5)
          ELSE TransitionStep \/ level' = level]_vars
    /\ [][SpawnStep =>
             LET sb == update_cmds'[Len(update_cmds')].spawned
             IN  /\ level' \in 1 .. 4
                 /\ DOMAIN sb = BrickIds(level')
                 /\ \A id \in DOMAIN sb :
                        sb[id].strength = LEVELS[level' + 1][id[2] + 1]]_vars
    /\ [](\A id \in DOMAIN bricks : id[1] \in 1 .. 4)

\* C24 witness: level 4 was cleared and the NextLevel request that followed
\* took the level to 5, where spawn_bricks failed.
C24_Witness ==
    /\ level = 5
    /\ panic = "index out of bounds"
    /\ "transition_game" \in upd_done

\* The bricks of the SpawnBricks command queued last.
LastSpawned == update_cmds[Len(update_cmds)].spawned

\* C25 as stated: the grid spawn_bricks builds has the same row strengths
\* for every level; two different levels spawn bricks of identical row
\* strengths.
C25_SameRowsEveryLevel ==
    [][SpawnStep =>
          \A id \in DOMAIN LastSpawned' :
              LastSpawned'[id].strength =
                  spawn_bricks(STARTING_LEVEL)
                      .spawned[<< STARTING_LEVEL, id[2], id[3] >>].strength]_vars

\* C25, amended: the number of rows is the same for every level, and the
\* level selects the entry of LEVELS the row strengths are read from: the
\* bricks of row r of level L are spawned with strength LEVELS[L][r].
C25_LevelSelectsLayout ==
    [][SpawnStep =>
          /\ {id[2] : id \in DOMAIN LastSpawned'} = 0 .. brick_rows - 1
          /\ \A id \in DOMAIN LastSpawned' :
                /\ id[1] = level'
                /\ LastSpawned'[id].strength = LEVELS[id[1] + 1][id[2] + 1]]_vars

\* C25 witness: the first row of the second level is being spawned at a
\* strength other than that of the first row of the first level.
C25_Witness ==
    /\ level = STARTING_LEVEL + 1
    /\ update_cmds # << >>
    /\ update_cmds[Len(update_cmds)].cmd = "SpawnBricks"
    /\ \E id \in DOMAIN LastSpawned :
          /\ id[1] = level
          /\ id[2] = 0
          /\ LastSpawned[id].strength # LEVELS[STARTING_LEVEL + 1][1]

\* C26: every brick spawn_bricks spawns has a strength in 1 .. 3; at every
\* tick boundary every live brick has a strength in 1 .. 3 and the tint of
\* that strength; a hit takes exactly 1 from a strength that was at least 1;
\* a brick at strength 0 has its despawn queued, so it is gone at the next
\* boundary; no subtraction underflows.
C26_StrengthInRange ==
    /\ [](AtBoundary =>
            \A id \in DOMAIN bricks :
                /\ bricks[id].strength \in 1 .. 3
                /\ bricks[id].strength - 1 \in BRICK_COLORS
                /\ bricks[id].color = bricks[id].strength - 1)
    /\ [](\A id \in DOMAIN bricks :
            /\ bricks[id].strength \in 0 .. 3
            /\ bricks[id].strength = 0 => id \in fixed_cmds)
    /\ [](panic # "attempt to subtract with overflow")
    /\ [][SpawnStep =>
            \A id \in DOMAIN LastSpawned' :
                /\ LastSpawned'[id].strength \in 1 .. 3
                /\ LastSpawned'[id].color = LastSpawned'[id].strength - 1]_vars
    /\ [][BrickPassStep =>
            \A id \in DOMAIN bricks :
                IF id \in brick_overlap'
                THEN /\ bricks[id].strength >= 1
                     /\ bricks'[id].strength = bricks[id].strength - 1
                ELSE bricks'[id] = bricks[id]]_vars

\* C26 witness: at a boundary, a brick spawned at strength 3 is live at
\* strength 1 after two hits, and a brick of its level is gone.
C26_Witness ==
    /\ AtBoundary
    /\ \E id \in DOMAIN bricks :
          /\ InitialStrength(id) = 3
          /\ bricks[id].strength = 1
          /\ BrickIds(id[1]) \ DOMAIN bricks # {}

\* ------------------------------------------- the ToUninitialized request

\* No system sends ToUninitialized; it reaches transition_game only as an
\* event some other sender has written.  The batches it is queued in: alone,
\* or followed by the ToPlayGame of game_aux_keys_handler.
ResetBatches ==
    {<< "ToUninitialized" >>,
     << "ToUninitialized", "ToPlayGame" >>}

\* SpecReset starts at the beginning of a frame of the first level in play,
\* MaxPlayed ticks of hits into it, with a batch of ResetBatches written in
\* the frame before.
ResetInit ==
    /\ pc = "First"
    /\ ticks_run = 0
    /\ tick_done = {}
    /\ upd_done = {}
    /\ app_state = "InGame"
    /\ next_state = "None"
    /\ app_events = << >>
    /\ game_state = "Playing"
    /\ \E batch \in ResetBatches :
           game_events = [i \in 1 .. Len(batch) |-> << batch[i], 0 >>]
    /\ player_msgs = << 0, 0 >>
    /\ level = STARTING_LEVEL
    /\ health = PLAYER_STARTING_HEALTH
    /\ brick_tracker = LevelAfter(MaxPlayed).tracker
    /\ score = LevelAfter(MaxPlayed).score
    /\ bricks = LevelAfter(MaxPlayed).bricks
    /\ hits = LevelAfter(MaxPlayed).hits
    /\ world = [ball |-> 1, paddle |-> 1, wall |-> 4]
    /\ blinking = [e \in Blinkers |-> NoBlinking]
    /\ visible = [e \in Blinkers |-> TRUE]
    /\ health_text = HEALTH_DISPLAY_INITIAL
    /\ fixed_cmds = {}
    /\ update_cmds = << >>
    /\ panic = "none"
    /\ exited = FALSE
    /\ accepted = 0
    /\ window_losses = 0
    /\ nl_emitted = 0
    /\ menu_requested = FALSE
    /\ handled = << >>
    /\ physics = FALSE
    /\ PhysicsInit
    /\ RicochetIdle
    /\ PaddleIdle
    /\ DeflectIdle
    /\ BlinkIdle
    /\ SoundIdle

SpecReset == ResetInit /\ [][Next]_vars

\* No ToUninitialized request is waiting: transition_game has processed it.
ResetProcessed ==
    \A i \in 1 .. Len(game_events) : game_events[i][1] # "ToUninitialized"

EventUpdateStep ==
    /\ pc = "First"
    /\ pc' = "StateTransition"

\* C28: transition_game reads every request of the queue, in the order of
\* arrival, and no request leaves the queue unread: the requests sent in a
\* frame, all after transition_game has run, are still queued when the frame
\* ends and are read in the next frame, before Events::update drops them.
C28_EveryRequestProcessedOnce ==
    /\ [][TransitionStep =>
             \/ game_events' = << >>
             \/ panic' # "none"]_vars
    /\ [][(~TransitionStep /\ ~EventUpdateStep) =>
             /\ Len(game_events') >= Len(game_events)
             /\ SubSeq(game_events', 1, Len(game_events)) = game_events
             /\ \A i \in Len(game_events) + 1 .. Len(game_events') :
                    game_events'[i][2] = 0]_vars
    /\ [][EventUpdateStep =>
             \A i \in 1 .. Len(game_events) : game_events[i][2] = 0]_vars

\* C29: check_paddle_collision applies the ControlStyle only for a Top or
\* Bottom collision under Edges or Momentum; for a Left, Right or Inside
\* collision, and under Unaltered, the velocity after the pass is
\* ball_ricochet of the velocity before it, whatever the paddle momentum.
C29_DeflectionOnlyOnFaces ==
    d_n = 1 =>
        LET reflected == [v |-> ball_ricochet(d_side, d_v), len |-> d_len]
        IN  IF d_side \in {"Top", "Bottom"} /\ d_style \in {"Edges", "Momentum"}
            THEN d_out = IF d_style = "Edges"
                         THEN ball_influence_edges(reflected, d_m)
                         ELSE ball_influence_momentum(reflected, d_m)
            ELSE d_out = reflected

\* C29 witness: a ball coming down on the left side of a paddle at full
\* momentum under Momentum leaves as ball_ricochet alone sends it, where
\* the deflection would have turned it.
C29_Witness ==
    /\ d_n = 1
    /\ d_style = "Momentum"
    /\ d_side = "Left"
    /\ d_m = PADDLE_MAX_MOMENTUM
    /\ d_v[1] > 0
    /\ d_out = [v |-> << -d_v[1], d_v[2] >>, len |-> d_len]
    /\ ball_influence_momentum(d_out, d_m) # d_out

\* ------------------------------------------------------- blink alone

\* Timer resolution of SpecBlink: time units in the blink duration.  At 4
\* units the entity is hidden at the elapsed time 1.
BlinkUnits == 4
\* Frames run in SpecBlink.
MaxBlinkFrames == 4

\* Mutant: Blinking is removed at the first tick that advances the timer,
\* and the visibility is left as the blink phase set it.
blink_entity_hasty(elapsed, delta, duration) ==
    LET t == Min(elapsed + delta, duration)
    IN  [timer |-> t,
         visible |-> 2 * ((5 * (duration - t)) % duration) <= duration,
         remove |-> t > 0]

\* The body of the loop of blink for one entity whose timer runs for
\* duration: the timer ticked, the visibility of the blink phase
\* (r = (percent_left % (1/5)) * 500, Inherited iff r <= 50), and, the timer
\* finished, Blinking removed and the visibility Inherited.
blink_entity(elapsed, delta, duration) ==
    LET t == Min(elapsed + delta, duration)
        finished == t >= duration
    IN  [timer |-> t,
         visible |-> IF finished THEN TRUE
                     ELSE 2 * ((5 * (duration - t)) % duration) <= duration,
         remove |-> finished]

\* SpecBlink follows one entity through the frames of the Update schedule:
\* blink and health_handler, which run while CurrentState is Playing, and
\* the deferred commands applied at the end of the schedule.
BlinkInit ==
    /\ LoopInit
    /\ physics = FALSE
    /\ PhysicsInit
    /\ RicochetIdle
    /\ PaddleIdle
    /\ DeflectIdle
    /\ BlinkIdle
    /\ SoundIdle

blink_frame ==
    << loop_vars, physics_vars, ricochet_vars, paddle_vars, deflect_vars,
       sound_vars >>

\* blink in a frame: the run condition reads CurrentState, Playing or not.
apply_blink ==
    /\ bl_pc = "blink"
    /\ bl_n < MaxBlinkFrames
    /\ \E state \in {"Playing", "Paused"} :
          /\ bl_state' = state
          /\ IF state = "Playing" /\ bl_timer # NoBlinking
             THEN \E delta \in 0 .. BlinkUnits :
                     LET b == blink_entity(bl_timer, delta, BlinkUnits)
                     IN  /\ bl_timer' = b.timer
                         /\ bl_visible' = b.visible
                         /\ bl_cmds' = IF b.remove THEN {"remove"} ELSE {}
                         /\ bl_played' = Min(bl_played + delta, BlinkUnits)
                         /\ bl_hid' = (bl_hid \/ ~b.visible)
             ELSE UNCHANGED << bl_timer, bl_visible, bl_cmds, bl_played, bl_hid >>
    /\ bl_pc' = "health_handler"
    /\ UNCHANGED << bl_n, blink_frame >>

\* health_handler in a frame: a JustLostHealth message read or not; a
\* Blinking is inserted unless the entity carries one.
apply_health_handler ==
    /\ bl_pc = "health_handler"
    /\ \E lost \in BOOLEAN :
          bl_cmds' = IF bl_state = "Playing" /\ lost /\ bl_timer = NoBlinking
                     THEN bl_cmds \cup {"insert"}
                     ELSE bl_cmds
    /\ bl_pc' = "apply_deferred"
    /\ UNCHANGED << bl_state, bl_timer, bl_visible, bl_played, bl_hid, bl_n,
                    blink_frame >>

\* The deferred commands of the frame are applied.
apply_blink_deferred ==
    /\ bl_pc = "apply_deferred"
    /\ bl_timer' = IF "insert" \in bl_cmds THEN 0
                   ELSE IF "remove" \in bl_cmds THEN NoBlinking
                   ELSE bl_timer
    /\ bl_played' = IF "insert" \in bl_cmds THEN 0 ELSE bl_played
    /\ bl_hid' = IF "insert" \in bl_cmds THEN FALSE ELSE bl_hid
    /\ bl_cmds' = {}
    /\ bl_n' = bl_n + 1
    /\ bl_pc' = "blink"
    /\ UNCHANGED << bl_state, bl_visible, blink_frame >>

BlinkNext ==
    \/ apply_blink
    \/ apply_health_handler
    \/ apply_blink_deferred

SpecBlink == BlinkInit /\ [][BlinkNext]_vars

\* C30: a Blinking whose timer has run for the blink duration of time in
\* Playing is gone when the frame ends; the step of blink in which the
\* elapsed time reaches the duration queues its removal and leaves the
\* entity visible; an entity without a Blinking is never hidden.
C30_BlinkWindowEnds ==
    /\ [](bl_pc = "blink" =>
             /\ bl_timer # NoBlinking => bl_timer < BlinkUnits
             /\ bl_played >= BlinkUnits => bl_timer = NoBlinking)
    /\ [](bl_timer # NoBlinking => bl_timer = bl_played)
    /\ [][(bl_timer # NoBlinking /\ bl_timer < BlinkUnits
              /\ bl_timer' = BlinkUnits) =>
             /\ "remove" \in bl_cmds'
             /\ bl_visible']_vars
    /\ [][(bl_timer # NoBlinking /\ bl_timer' = NoBlinking) =>
             bl_timer = BlinkUnits]_vars
    /\ [](bl_timer = NoBlinking => bl_visible)

\* C30 witness: the Blinking of an entity that blink had hidden has run its
\* duration and is removed, and the entity is visible.
C30_Witness ==
    /\ bl_pc = "blink"
    /\ bl_timer = NoBlinking
    /\ bl_played = BlinkUnits
    /\ bl_hid
    /\ bl_visible

\* ------------------------------------------- play_collision_sound alone

\* Timer resolution of SpecSound: time units in COLLISION_SOUND_DELAY.
SoundUnits == 2
\* CollisionEvents the passes of one frame send at most.
MaxCollisions == 2
\* Frames run in SpecSound.
MaxSoundFrames == 4

COLLISION_SOUND_DELAY == SoundUnits

\* Mutant: the delay is not set back when a sound is played.
play_collision_sound_no_reset(delay, unread, delta) ==
    LET waited == Min(delay + delta, COLLISION_SOUND_DELAY)
    IN  IF unread > 0
        THEN [delay |-> waited, unread |-> 0,
              sound |-> waited >= COLLISION_SOUND_DELAY]
        ELSE [delay |-> waited, unread |-> unread, sound |-> FALSE]

\* play_collision_sound: the delay grows by the frame time; with events to
\* read, they are cleared, and a delay that has reached COLLISION_SOUND_DELAY
\* is set back to 0 and an AudioBundle spawned.  Only the comparison reads
\* the delay, so it is kept up to COLLISION_SOUND_DELAY.
play_collision_sound(delay, unread, delta) ==
    LET waited == Min(delay + delta, COLLISION_SOUND_DELAY)
    IN  IF unread > 0
        THEN IF waited >= COLLISION_SOUND_DELAY
             THEN [delay |-> 0, unread |-> 0, sound |-> TRUE]
             ELSE [delay |-> waited, unread |-> 0, sound |-> FALSE]
        ELSE [delay |-> waited, unread |-> unread, sound |-> FALSE]

SoundInit ==
    /\ LoopInit
    /\ physics = FALSE
    /\ PhysicsInit
    /\ RicochetIdle
    /\ PaddleIdle
    /\ DeflectIdle
    /\ BlinkIdle
    /\ SoundIdle

sound_frame ==
    << loop_vars, physics_vars, ricochet_vars, paddle_vars, deflect_vars,
       blink_vars >>

\* The start of a frame: Time is updated, Events::update ages the
\* CollisionEvents, and the collision passes of the ticks of the frame send
\* theirs.
apply_collision_passes ==
    /\ s_pc = "ticks"
    /\ s_n < MaxSoundFrames
    /\ s_delta' \in 0 .. SoundUnits
    /\ s_playing' \in BOOLEAN
    /\ \E sent \in 0 .. MaxCollisions : s_events' = << s_events[2], sent >>
    /\ s_sounds' = 0
    /\ s_pc' = "sound"
    /\ UNCHANGED << s_found, s_delay, s_since, s_n, sound_frame >>

\* The Update schedule of the frame: play_collision_sound runs if
\* CurrentState is Playing.
apply_play_collision_sound ==
    /\ s_pc = "sound"
    /\ LET unread == s_events[1] + s_events[2]
           run == play_collision_sound(s_delay, unread, s_delta)
           passed == IF s_since = NoSound THEN NoSound
                     ELSE Min(s_since + s_delta, COLLISION_SOUND_DELAY)
       IN  IF s_playing
           THEN /\ s_delay' = run.delay
                /\ s_events' = IF run.unread = 0 THEN << 0, 0 >> ELSE s_events
                /\ s_sounds' = IF run.sound THEN s_sounds + 1 ELSE s_sounds
                /\ s_since' = IF run.sound THEN 0 ELSE passed
                /\ s_found' = unread
           ELSE /\ s_since' = passed
                /\ UNCHANGED << s_delay, s_events, s_sounds, s_found >>
    /\ s_n' = s_n + 1
    /\ s_pc' = "ticks"
    /\ UNCHANGED << s_delta, s_playing, sound_frame >>

SoundNext ==
    \/ apply_collision_passes
    \/ apply_play_collision_sound

SpecSound == SoundInit /\ [][SoundNext]_vars

BlinkStep ==
    /\ "blink" \notin upd_done
    /\ upd_done' = upd_done \cup {"blink"}

\* C32: whenever a fixed-update tick, health_handler or blink executes,
\* which they do while CurrentState is Playing, AppState is InGame; nothing
\* of the game runs once AppState has left InGame for MainMenu.
C32_PlayingOnlyInGame ==
    /\ [](pc = "Tick" => app_state = "InGame")
    /\ [][(HealthHandlerStep \/ BlinkStep) => app_state = "InGame"]_vars

\* C33: one run of health_handler takes at most 1 from health, however many
\* JustLostHealth events it reads.
C33_OneLossPerRun ==
    [][HealthHandlerStep => health' >= health - 1]_vars

\* C34: whenever CurrentState is Playing the HealthDisplay shows the current
\* health: the starting health after setup, and the new value after every
\* change of health.
C34_DisplayShowsHealth ==
    /\ [](game_state = "Playing" /\ panic = "none" => health_text = health)
    /\ [][health' # health => health_text' = health']_vars

\* C35: after ball_ricochet with a side the ball does not head into the
\* collider on that side: vx <= 0 after Left, vx >= 0 after Right, vy >= 0
\* after Top, vy <= 0 after Bottom; and the velocity after two calls with
\* the same side is the velocity after one.
C35_NeverHeadingIn ==
    r_n >= 1 =>
        /\ r_side = "Left" => r_out[1] <= 0
        /\ r_side = "Right" => r_out[1] >= 0
        /\ r_side = "Top" => r_out[2] >= 0
        /\ r_side = "Bottom" => r_out[2] <= 0
        /\ r_out = ball_ricochet(r_side, r_in)

\* C35 witness: a ball that came down on the top of a collider is heading
\* up after the second call as after the first.
C35_Witness ==
    /\ r_n = 2
    /\ r_side = "Top"
    /\ r_in[2] < 0
    /\ r_out[2] > 0
    /\ r_out = ball_ricochet(r_side, r_in)

\* handle_transition_request runs.
HandleTransitionStep ==
    /\ "handle_transition_request" \notin upd_done
    /\ "handle_transition_request" \in upd_done'

\* The StateTransition schedule runs.
StateTransitionStep ==
    /\ pc = "StateTransition"
    /\ pc' = "FixedLoop"

\* The handler reads every pending request whatever the AppState is, and
\* leaves the target of the last one in NextState; the next StateTransition
\* makes a queued target the AppState.
LastRequestQueued ==
    /\ [][HandleTransitionStep =>
            /\ handled' = [i \in 1 .. Len(app_events) |-> app_events[i][1]]
            /\ app_events' = << >>
            /\ next_state' = IF app_events = << >>
                             THEN next_state
                             ELSE AppTarget(app_events[Len(app_events)][1])]_vars
    /\ [][StateTransitionStep =>
            /\ next_state # "None" => app_state' = next_state
            /\ next_state' = "None"]_vars

\* C36 as stated: the handler has no guard on the current state; when
\* requests are pending in a frame the AppState becomes the target of the
\* last one in arrival order, for every current state including Exit, so
\* that the application never stops with a queued target it did not enter.
C36_LastRequestWins ==
    /\ LastRequestQueued
    /\ [](pc = "Exited" => next_state = "None")

\* C36 amended: the handler has no guard on the current state and queues the
\* target of the last pending request in every AppState; the queued target
\* becomes the AppState at the next StateTransition when the AppState is not
\* Exit; in Exit the application stops at the end of the frame and the
\* AppState stays Exit.
C36_LastRequestWinsUnlessExit ==
    /\ LastRequestQueued
    /\ [][(next_state # "None" /\ app_state # "Exit") =>
            \/ next_state' = next_state /\ app_state' = app_state
            \/ HandleTransitionStep
            \/ StateTransitionStep /\ app_state' = next_state]_vars
    /\ [](app_state # "Exit" => pc # "Exited")
    /\ [][app_state = "Exit" => app_state' = "Exit"]_vars

\* C36 witness: in MainMenu the handler read two requests with different
\* targets in one frame and queued the target of the second.
C36_Witness ==
    /\ app_state = "MainMenu"
    /\ "handle_transition_request" \in upd_done
    /\ Len(handled) = 2
    /\ AppTarget(handled[1]) # AppTarget(handled[2])
    /\ next_state = AppTarget(handled[2])

====
